---- MODULE Spec2Model ----
(***************************************************************************)
(* Model of the SeePlace place-search application:                         *)
(*   - the Redux store (placesSlice reducers, ui flags),                   *)
(*   - the redux-saga coordinator (searchFlowSaga, debouncedSearchSaga,    *)
(*     selectPlaceSaga, updateMapSaga) run by the saga scheduler,          *)
(*   - the GoogleMapsService adapter (initialize / _performInitialization),*)
(*   - the useGoogleMaps hook (auto-pinning effect and helpers).           *)
(*                                                                         *)
(* JavaScript is single threaded: everything between two suspension points *)
(* (a timer, a vendor callback, a user event) runs without interruption.   *)
(* Inside such a turn redux-saga queues every put and dispatches the queue *)
(* in FIFO order; `queue` is that queue, and the user, the timers and the  *)
(* vendor act only when it is empty (Idle).                                *)
(***************************************************************************)
EXTENDS Integers, Sequences, FiniteSets, TLC

VARIABLES
  \* ---- store.places (placesSlice.js) --------------------------------
  suggestions, searchHistory, selectedPlace, markers,
  \* ---- store.ui (uiSlice) --------------------------------------------
  searchLoading, mapLoading, error,
  \* ---- saga runtime ---------------------------------------------------
  queue,          \* puts waiting to be dispatched (redux-saga scheduler)
  flowPc,         \* position of searchFlowSaga: "take" | "cancel" | "fork"
  flowAction,     \* the searchPlacesRequest action searchFlowSaga holds
  searchTask,     \* searchFlowSaga's local `searchTask` (0 = undefined)
  searchTasks,    \* debouncedSearchSaga tasks, indexed by submission
  submitCount,    \* number of searchPlacesRequest actions dispatched
  selTasks,       \* selectPlaceSaga tasks (with their updateMapSaga child)
  selectCount,    \* number of user selections dispatched
  pendingCalls,   \* adapter calls whose promise has not settled yet
  serviceInstance,\* what getServiceInstance() returns: "imported" | "none"
  \* ---- GoogleMapsService ---------------------------------------------
  google, autocompleteService, isInitialized, initializationPromise,
  initializationError,
  loads,          \* loader.load() calls issued: load id -> state
  initPc,         \* _performInitialization activations: load id -> position
  callers,        \* initialize() callers of the adapter
  \* ---- useGoogleMaps hook ---------------------------------------------
  map, hookError, markersRef, lastProcessedPlaceId, mapCenter, mapZoom,
  nextMarkerId,   \* identity of the next vendor Marker object
  visibleMarkers, \* vendor side: the Marker objects shown on the map
  markerThrows,   \* vendor side: Marker constructions that threw
  initializationAttempted, \* the hook's ref of that name
  attempts,       \* initMap's local `attempts`
  mapInitPc,      \* initMap: "timer" | "polling" | "creating" | "idle"
  createMapCalls, \* calls of googleMapsService.createMap
  \* ---- MapContainer component ------------------------------------------
  domReady, mapError,
  domTimer,       \* a setTimeout(checkDomReady, 100) is pending
  domPolls,       \* runs of checkDomReady so far, modulo MaxDomPolls + 1
  retryCount,     \* clicks on "Retry Map" / "Force Retry"
  uncaught,       \* exceptions that left an event handler uncaught
  \* ---- direct calls of GoogleMapsService.searchPlaces ------------------
  returned,       \* the calls made and what their promises settled with
  lookups,        \* calls of autocompleteService.getPlacePredictions
  scriptErrors,   \* failed loads of the SDK script the Loader has seen
  \* ---- environment ----------------------------------------------------
  clock,          \* Date.now()
  opCount         \* operations applied directly to one component

storeVars == <<suggestions, searchHistory, selectedPlace, markers>>
uiVars == <<searchLoading, mapLoading, error>>
sagaVars == <<queue, flowPc, flowAction, searchTask, searchTasks, submitCount,
              selTasks, selectCount, pendingCalls, serviceInstance>>
serviceVars == <<google, autocompleteService, isInitialized,
                 initializationPromise, initializationError, loads, initPc,
                 callers>>
mountVars == <<initializationAttempted, attempts, mapInitPc, createMapCalls,
               domReady, mapError, domTimer, domPolls, retryCount, uncaught>>
hookVars == <<map, hookError, markersRef, lastProcessedPlaceId, mapCenter,
              mapZoom, nextMarkerId, visibleMarkers,
              markerThrows, mountVars>>
directVars == <<returned, lookups, scriptErrors>>
vars == <<storeVars, uiVars, sagaVars, serviceVars, hookVars, directVars, clock,
          opCount>>

(***************************************************************************)
(* Bounds of the model                                                     *)
(***************************************************************************)
\* user actions (search submissions and selections together) in one run
MaxUserActions == 4
\* actions dispatched to the store on top of a seeded history (SpecHistory)
MaxHistoryOps == 2
\* callers of GoogleMapsService.initialize() in one run (SpecService)
MaxCallers == 4
\* calls of GoogleMapsService.reset() in one run (SpecServiceReset)
MaxResets == 1
\* renders, selections and helper calls of the map hook in one run (SpecMap)
MaxMapOps == 5
\* direct calls of GoogleMapsService.searchPlaces in one run
\* (SpecSearchPlaces)
MaxSearchCalls == 2
\* clicks on the retry buttons of MapContainer in one run (SpecMount)
MaxRetries == 2
\* runs of MapContainer's checkDomReady are counted up to this number and
\* then from 0 again: the code puts no bound on them (SpecMount)
MaxDomPolls == 3

(***************************************************************************)
(* Program constants                                                       *)
(***************************************************************************)
HistoryLimit == 20
MinQueryLength == 2
PinZoom == 15
DefaultZoom == 12
PollAttempts == 50

(***************************************************************************)
(* Data: queries, coordinates, places                                      *)
(***************************************************************************)
\* A query string is a sequence of characters (TLC has no length on strings).
Queries == { <<"k">>, <<"k", "l">>, <<"m", "y">> }
NoQuery == << >>

RECURSIVE TrimLeft(_)
TrimLeft(s) == IF s # << >> /\ Head(s) = " " THEN TrimLeft(Tail(s)) ELSE s
RECURSIVE TrimRight(_)
TrimRight(s) ==
  IF s # << >> /\ s[Len(s)] = " " THEN TrimRight(SubSeq(s, 1, Len(s) - 1)) ELSE s
Trim(s) == TrimRight(TrimLeft(s))

\* A coordinate is either a plain number or a zero-argument accessor
\* function returning the number (google.maps.LatLng), or undefined.
NumCoord(v) == [kind |-> "num", val |-> v]
FnCoord(v) == [kind |-> "fn", val |-> v]
NoCoord == [kind |-> "undef", val |-> 0]
NoLocation == [present |-> FALSE, lat |-> NoCoord, lng |-> NoCoord]
NoGeometry == [present |-> FALSE, location |-> NoLocation, viewport |-> "none"]

PlaceIds == {"p1", "p2"}
\* Coordinates in units of 1e-4 degree (3.1578, 101.7118 for p1).
LatOf(pid) == IF pid = "p1" THEN 31578 ELSE 14870
LngOf(pid) == IF pid = "p1" THEN 1017118 ELSE 1036800
\* Texts (names, descriptions, queries) are sequences of strings.
NameOf(pid) == IF pid = "p1" THEN <<"Petronas Towers">> ELSE <<"Legoland">>

NullPlace ==
  [shape |-> "null", place_id |-> "", description |-> NoQuery, name |-> << >>,
   geometry |-> NoGeometry]

\* An autocomplete prediction: place_id and description, no geometry.
Prediction(pid, q) ==
  [shape |-> "prediction", place_id |-> pid, description |-> q, name |-> << >>,
   geometry |-> NoGeometry]

\* The PlaceResult the vendor's getDetails hands back, in the shapes the
\* vendor produces: LatLng accessors with a LatLngBounds viewport, plain
\* numeric fields, or no geometry at all.
DetailShapes == {"fn", "plain", "nogeom"}
VendorDetails(pid, shape) ==
  [shape |-> "details", place_id |-> pid, description |-> NoQuery,
   name |-> NameOf(pid),
   geometry |->
     CASE shape = "fn" ->
            [present |-> TRUE,
             location |-> [present |-> TRUE, lat |-> FnCoord(LatOf(pid)),
                           lng |-> FnCoord(LngOf(pid))],
             viewport |-> "LatLngBounds"]
       [] shape = "plain" ->
            [present |-> TRUE,
             location |-> [present |-> TRUE, lat |-> NumCoord(LatOf(pid)),
                           lng |-> NumCoord(LngOf(pid))],
             viewport |-> "none"]
       [] OTHER -> NoGeometry]

\* The predictions the vendor returns for a query with status OK: one
\* candidate per place, then an entry without place_id.
PidOfQuery(q) == IF Head(q) = "k" THEN "p1" ELSE "p2"
VendorPredictions(q) ==
  << Prediction(PidOfQuery(q), q), Prediction("", q) >>

(***************************************************************************)
(* Error messages and the substring tests the sagas apply to them          *)
(***************************************************************************)
MsgDenied ==
  "Places API access denied. Your API key does not have permission for Places API."
MsgQuota == "Places API quota exceeded. Check your billing account."
MsgInvalidRequest == "Invalid search request parameters."
MsgInvalidKey == "Invalid API key. Check your Google Cloud Console credentials."
MsgBilling == "You must enable billing on the Google Cloud project"
MsgNoService == "Google Maps service error: Service instance is null or undefined"
MsgInvalidPlace == "Invalid place data - missing place_id"
MsgDetailsFailed == "Place details failed: NOT_FOUND"
MsgSearchUnknown == "Search failed: UNKNOWN_ERROR"
MsgNoFreshService == "Unable to obtain fresh service instance"
NoError == ""

\* error.message.includes(word), for the messages above.
Includes(msg, word) ==
  CASE msg = MsgDenied -> word \in {"API key"}
    [] msg = MsgQuota -> word \in {"quota", "billing"}
    [] msg = MsgInvalidKey -> word \in {"API key"}
    [] msg = MsgBilling -> word \in {"billing"}
    [] msg = MsgNoService -> word \in {"service", "null", "undefined"}
    [] msg = MsgNoFreshService -> word \in {"service"}
    [] OTHER -> FALSE

IncludesAny(msg, words) == \E w \in words : Includes(msg, w)

\* Loader failures: the messages _performInitialization rethrows.
InitErrors == {MsgInvalidKey, MsgBilling}


(***************************************************************************)
(* Redux actions                                                           *)
(***************************************************************************)
NoTask == [k |-> "none", id |-> 0]
SearchId(t) == [k |-> "search", id |-> t]
SelectId(i) == [k |-> "select", id |-> i]
MapId(i) == [k |-> "map", id |-> i]

\* marker payload of addMarker: position, title, placeId
NoMarker == [position |-> NoLocation, title |-> << >>, placeId |-> ""]

\* One dispatched action. `task` is the saga task whose put this is (NoTask
\* for a dispatch made by the UI); `envelope` tells {place, query} from a
\* bare place in a selectPlace payload.
Action(type, task) ==
  [type |-> type, task |-> task, place |-> NullPlace, envelope |-> FALSE,
   query |-> NoQuery, list |-> << >>, msg |-> NoError, flag |-> FALSE,
   marker |-> NoMarker, timestamp |-> 0]

(***************************************************************************)
(* placesSlice reducers                                                    *)
(***************************************************************************)
\* (mutation) the coordinate is stored as the vendor gave it
MutSerializeCoord(c) == c
\* typeof c === 'function' ? c() : c
SerializeCoord(c) == IF c.kind = "fn" THEN NumCoord(c.val) ELSE c

\* {...place, geometry: {...place.geometry, location: serializedLocation}}
\* when place.geometry.location is there; the place itself otherwise.
SerializePlace(place) ==
  IF place.geometry.present /\ place.geometry.location.present
    THEN [place EXCEPT !.geometry.location.lat = SerializeCoord(@),
                       !.geometry.location.lng = SerializeCoord(@)]
    ELSE place

\* selectPlace: place = payload.place || payload
SelectPlaceReducer(a) == SerializePlace(a.place)

\* findIndex(item => item.place.place_id === place_id), 0 when none
FindIndex(hist, pid) ==
  IF \E i \in 1..Len(hist) : hist[i].place.place_id = pid
    THEN CHOOSE i \in 1..Len(hist) :
           /\ hist[i].place.place_id = pid
           /\ \A j \in 1..(i - 1) : hist[j].place.place_id # pid
    ELSE 0

\* splice(index, 1)
Splice(hist, i) == SubSeq(hist, 1, i - 1) \o SubSeq(hist, i + 1, Len(hist))

HistoryEntry(query, place, timestamp, now) ==
  [id |-> now, query |-> query, place |-> place, timestamp |-> timestamp]

MutKeepDuplicate(hist, query, place, timestamp, now) ==
  LET u == << HistoryEntry(query, SerializePlace(place), timestamp, now) >> \o hist
  IN  IF Len(u) > HistoryLimit THEN SubSeq(u, 1, HistoryLimit) ELSE u

MutNoEviction(hist, query, place, timestamp, now) ==
  LET sp == SerializePlace(place)
      i == FindIndex(hist, sp.place_id)
  IN  << HistoryEntry(query, sp, timestamp, now) >>
        \o (IF i > 0 THEN Splice(hist, i) ELSE hist)

\* (mutation) the new entry replaces the whole history
MutHistoryKeepsNewest(hist, query, place, timestamp, now) ==
  << HistoryEntry(query, SerializePlace(place), timestamp, now) >>

\* addToSearchHistory
AddToSearchHistoryReducer(hist, query, place, timestamp, now) ==
  LET sp == SerializePlace(place)
      i == FindIndex(hist, sp.place_id)
      removed == IF i > 0 THEN Splice(hist, i) ELSE hist
      unshifted == << HistoryEntry(query, sp, timestamp, now) >> \o removed
  IN  IF Len(unshifted) > HistoryLimit
        THEN SubSeq(unshifted, 1, HistoryLimit)
        ELSE unshifted

\* The places slice after action a.
PlacesReducer(a) ==
  LET s == [suggestions |-> suggestions, searchHistory |-> searchHistory,
            selectedPlace |-> selectedPlace, markers |-> markers]
  IN  CASE a.type = "searchPlacesSuccess" -> [s EXCEPT !.suggestions = a.list]
        [] a.type = "searchPlacesFailure" -> [s EXCEPT !.suggestions = << >>]
        [] a.type = "selectPlace" ->
             [s EXCEPT !.selectedPlace = SelectPlaceReducer(a),
                       !.suggestions = << >>]
        [] a.type = "addToSearchHistory" ->
             [s EXCEPT !.searchHistory =
                AddToSearchHistoryReducer(searchHistory, a.query, a.place,
                                          a.timestamp, clock)]
        [] a.type = "clearSearchHistory" -> [s EXCEPT !.searchHistory = << >>]
        [] a.type = "addMarker" -> [s EXCEPT !.markers = Append(@, a.marker)]
        [] a.type = "clearMarkers" -> [s EXCEPT !.markers = << >>]
        [] a.type = "clearSuggestions" -> [s EXCEPT !.suggestions = << >>]
        [] OTHER -> s

\* The ui slice after action a.
UiReducer(a) ==
  LET s == [searchLoading |-> searchLoading, mapLoading |-> mapLoading,
            error |-> error]
  IN  CASE a.type = "setSearchLoading" -> [s EXCEPT !.searchLoading = a.flag]
        [] a.type = "setMapLoading" -> [s EXCEPT !.mapLoading = a.flag]
        [] a.type = "setError" -> [s EXCEPT !.error = a.msg]
        [] a.type = "clearError" -> [s EXCEPT !.error = NoError]
        [] OTHER -> s


(***************************************************************************)
(* GoogleMapsService.searchPlaces: the status switch                       *)
(***************************************************************************)
SearchStatuses == {"OK", "ZERO_RESULTS", "REQUEST_DENIED"}

\* `Search failed: ${status}`
SearchFailedText(status) ==
  CASE status = "OK" -> "Search failed: OK"
    [] status = "ZERO_RESULTS" -> "Search failed: ZERO_RESULTS"
    [] status = "REQUEST_DENIED" -> "Search failed: REQUEST_DENIED"
    [] status = "OVER_QUERY_LIMIT" -> "Search failed: OVER_QUERY_LIMIT"
    [] status = "INVALID_REQUEST" -> "Search failed: INVALID_REQUEST"
    [] status = "NOT_FOUND" -> "Search failed: NOT_FOUND"
    [] OTHER -> MsgSearchUnknown

SearchErrorMessage(status) ==
  CASE status = "REQUEST_DENIED" -> MsgDenied
    [] status = "OVER_QUERY_LIMIT" -> MsgQuota
    [] status = "INVALID_REQUEST" -> MsgInvalidRequest
    [] OTHER -> SearchFailedText(status)

\* How a promise of the adapter settles.
Resolved(list, place) == [ok |-> TRUE, list |-> list, place |-> place, msg |-> NoError]
Rejected(msg) == [ok |-> FALSE, list |-> << >>, place |-> NullPlace, msg |-> msg]

\* (mutation) ZERO_RESULTS is treated like any other failing status
MutZeroResultsRejects(q, status) ==
  CASE status = "OK" -> Resolved(VendorPredictions(q), NullPlace)
    [] OTHER -> Rejected(SearchErrorMessage(status))
\* What the promise returned by searchPlaces(q) settles with for a vendor
\* status: resolve(predictions || []), resolve([]) or reject(Error).
SearchResult(q, status) ==
  CASE status = "OK" -> Resolved(VendorPredictions(q), NullPlace)
    [] status = "ZERO_RESULTS" -> Resolved(<< >>, NullPlace)
    [] OTHER -> Rejected(SearchErrorMessage(status))

(***************************************************************************)
(* debouncedSearchSaga                                                     *)
(***************************************************************************)
NoSearchTask ==
  [pc |-> "none", query |-> NoQuery, err |-> NoError, calls |-> 0, answers |-> 0]

\* An adapter call in flight: initialize(), searchPlaces(query) or
\* getPlaceDetails(placeId), and the task that awaits it.
Call(kind, task, query, placeId) ==
  [kind |-> kind, task |-> task, query |-> query, placeId |-> placeId]

\* One step of a saga task: the task afterwards, the puts it queued and
\* the adapter calls it started.
Step(task, puts, calls) == [task |-> task, puts |-> puts, calls |-> calls]

\* places.filter(place => place && place.place_id && place.description)
ValidPlaces(list) ==
  SelectSeq(list, LAMBDA p : p.shape # "null" /\ p.place_id # ""
                              /\ p.description # NoQuery)

\* catch (error) of debouncedSearchSaga: the user-facing message
SearchUserMessage(msg) ==
  IF Includes(msg, "API key")
    THEN "Google Maps API key issue. Please check your configuration."
  ELSE IF IncludesAny(msg, {"quota", "limit", "billing"})
    THEN "Google Maps quota exceeded. Please check your billing account."
  ELSE IF IncludesAny(msg, {"network", "fetch", "connection"})
    THEN "Network error. Please check your internet connection."
  ELSE IF IncludesAny(msg, {"service", "initialize"})
    THEN "Maps service initialization error. Please refresh the page."
  ELSE IF IncludesAny(msg, {"null", "undefined"})
    THEN "Service connection error. Please refresh the page and try again."
  ELSE IF Includes(msg, "ZERO_RESULTS")
    THEN "No places found for your search."
  ELSE IF Includes(msg, "INVALID_REQUEST")
    THEN "Invalid search request. Please try a different search term."
  ELSE "Search failed. Please try again."

\* fork: the body runs to its first put, setSearchLoading(true)
SearchStart(t, q) ==
  Step([NoSearchTask EXCEPT !.pc = "s1", !.query = q],
       << [Action("setSearchLoading", SearchId(t)) EXCEPT !.flag = TRUE] >>, {})

\* (mutation) the catch block empties the history instead
MutSearchFailClearsHistory(t, task, msg) ==
  Step([task EXCEPT !.pc = "f1", !.err = msg],
       << Action("clearSearchHistory", SearchId(t)) >>, {})
\* an error reaches catch (error): put(searchPlacesFailure(error.message))
SearchFail(t, task, msg) ==
  Step([task EXCEPT !.pc = "f1", !.err = msg],
       << [Action("searchPlacesFailure", SearchId(t)) EXCEPT !.msg = msg] >>, {})

SearchCommit(t, task, list) ==
  Step([task EXCEPT !.pc = "c1"],
       << [Action("searchPlacesSuccess", SearchId(t)) EXCEPT !.list = list] >>, {})

\* yield call([service, 'searchPlaces'], query). The adapter answers a
\* query whose trimmed length is below 2 at once with [], without the
\* vendor; any other call waits for the vendor.
SearchCall(t, task) ==
  LET called == [task EXCEPT !.calls = @ + 1]
  IN  IF Len(Trim(task.query)) < MinQueryLength
        THEN SearchCommit(t, [called EXCEPT !.answers = @ + 1], ValidPlaces(<< >>))
        ELSE Step([called EXCEPT !.pc = "inflight"], << >>,
                  {Call("search", SearchId(t), Trim(task.query), "")})

\* after delay(300): validation, service lookup, initialize, searchPlaces
SearchAfterDelay(t, task) ==
  IF Len(task.query) < MinQueryLength
    THEN SearchCommit(t, task, << >>)
  ELSE IF serviceInstance = "none"
    THEN SearchFail(t, task, MsgNoService)
  ELSE IF ~isInitialized
    THEN Step([task EXCEPT !.pc = "initializing"], << >>,
              {Call("init", SearchId(t), NoQuery, "")})
  ELSE SearchCall(t, task)

\* the searchPlaces promise settled with `result`
SearchSettled(t, task, result) ==
  LET answered == [task EXCEPT !.answers = @ + 1]
  IN  IF result.ok
        THEN SearchCommit(t, answered, ValidPlaces(result.list))
        ELSE SearchFail(t, answered,
                        IF IncludesAny(result.msg, {"null", "undefined"})
                          THEN MsgNoFreshService
                          ELSE result.msg)

\* The generator returned: its locals are gone, the task keeps its result.
SearchEnded(task, result) ==
  [NoSearchTask EXCEPT !.pc = result, !.calls = task.calls,
                       !.answers = task.answers]

\* (mutation) the task goes to its delay without put(clearError())
MutSearchResumeKeepsError(t, task) ==
  CASE task.pc = "s1" ->
         Step([task EXCEPT !.pc = "debouncing"], << >>, {})
    [] task.pc = "s2" -> Step([task EXCEPT !.pc = "debouncing"], << >>, {})
    [] task.pc = "c1" ->
         Step([task EXCEPT !.pc = "fin"],
              << Action("setSearchLoading", SearchId(t)) >>, {})
    [] task.pc = "f1" ->
         Step([task EXCEPT !.pc = "f2"],
              << [Action("setError", SearchId(t))
                    EXCEPT !.msg = SearchUserMessage(task.err)] >>, {})
    [] task.pc = "f2" ->
         Step([task EXCEPT !.pc = "finF"],
              << Action("setSearchLoading", SearchId(t)) >>, {})
    [] task.pc = "fin" -> Step(SearchEnded(task, "committed"), << >>, {})
    [] task.pc = "finF" -> Step(SearchEnded(task, "failed"), << >>, {})
    [] task.pc = "cancelFin" -> Step(SearchEnded(task, "cancelled"), << >>, {})
    [] OTHER -> Step(task, << >>, {})

\* the task continues after its put was dispatched
SearchResume(t, task) ==
  CASE task.pc = "s1" ->
         Step([task EXCEPT !.pc = "s2"], << Action("clearError", SearchId(t)) >>, {})
    [] task.pc = "s2" -> Step([task EXCEPT !.pc = "debouncing"], << >>, {})
    [] task.pc = "c1" ->
         Step([task EXCEPT !.pc = "fin"],
              << Action("setSearchLoading", SearchId(t)) >>, {})
    [] task.pc = "f1" ->
         Step([task EXCEPT !.pc = "f2"],
              << [Action("setError", SearchId(t))
                    EXCEPT !.msg = SearchUserMessage(task.err)] >>, {})
    [] task.pc = "f2" ->
         Step([task EXCEPT !.pc = "finF"],
              << Action("setSearchLoading", SearchId(t)) >>, {})
    [] task.pc = "fin" -> Step(SearchEnded(task, "committed"), << >>, {})
    [] task.pc = "finF" -> Step(SearchEnded(task, "failed"), << >>, {})
    [] task.pc = "cancelFin" -> Step(SearchEnded(task, "cancelled"), << >>, {})
    [] OTHER -> Step(task, << >>, {})

\* The spec's "live" search task: Debouncing or InFlight.
SearchLive(task) == task.pc \in {"s1", "s2", "debouncing", "initializing", "inflight"}
\* A task that has not run to its end yet.
SearchRunning(task) ==
  task.pc \notin {"none", "committed", "failed", "cancelled"}

\* (mutation) the previous task is never cancelled
MutCancelTask(t, task) == Step(task, << >>, {})
\* (mutation) only a task still in its debounce delay is cancelled
MutCancelOnlyDebouncing(t, task) ==
  IF task.pc = "debouncing"
    THEN Step([task EXCEPT !.pc = "cancelFin"],
              << Action("setSearchLoading", SearchId(t)) >>, {})
    ELSE Step(task, << >>, {})
\* (mutation) a task still in its debounce delay is left to run
MutCancelSparesDelay(t, task) ==
  IF task.pc \in {"initializing", "inflight"}
    THEN Step([task EXCEPT !.pc = "cancelFin"],
              << Action("setSearchLoading", SearchId(t)) >>, {})
    ELSE Step(task, << >>, {})
\* cancel(task): a task suspended in delay or call jumps to its finally
\* block, put(setSearchLoading(false)); a finished task is left alone.
CancelTask(t, task) ==
  IF task.pc \in {"debouncing", "initializing", "inflight"}
    THEN Step([task EXCEPT !.pc = "cancelFin"],
              << Action("setSearchLoading", SearchId(t)) >>, {})
    ELSE Step(task, << >>, {})


(***************************************************************************)
(* selectPlaceSaga and updateMapSaga                                       *)
(***************************************************************************)
\* catch (error) of selectPlaceSaga: the user-facing message
SelectUserMessage(msg) ==
  IF Includes(msg, "API key")
    THEN "Google Maps API key issue. Please check configuration."
  ELSE IF IncludesAny(msg, {"quota", "billing"})
    THEN "Google Maps usage limit reached. Please try again later."
  ELSE IF Includes(msg, "network")
    THEN "Network error. Please check your internet connection."
  ELSE IF Includes(msg, "service")
    THEN "Maps service issue. Please refresh the page."
  ELSE "Failed to load place details. Please try again."

\* takeEvery forks selectPlaceSaga(action): const { place, query } =
\* action.payload is undefined for both when the payload is a bare place.
\* The body runs to its first put, setMapLoading(true). origin and pid
\* record who dispatched the action and which place the run is for; they
\* outlive the run. searches is the number of searches submitted before
\* the run started.
SelectStart(i, a) ==
  Step([pc |-> "m1",
        origin |-> IF a.task = NoTask THEN "user" ELSE "saga",
        pid |-> IF a.envelope THEN a.place.place_id ELSE "",
        searches |-> submitCount,
        place |-> IF a.envelope THEN a.place ELSE NullPlace,
        query |-> IF a.envelope THEN a.query ELSE NoQuery,
        details |-> NullPlace,
        mapPc |-> "none"],
       << [Action("setMapLoading", SelectId(i)) EXCEPT !.flag = TRUE] >>, {})

\* (mutation) the error leaves selectPlaceSaga uncaught: the task dies
MutSelectFailEscapes(i, task, msg) ==
  Step([task EXCEPT !.pc = "aborted", !.place = NullPlace, !.query = NoQuery,
                    !.details = NullPlace], << >>, {})

\* an error reaches catch (error): put(setError(userMessage))
SelectFail(i, task, msg) ==
  Step([task EXCEPT !.pc = "e1"],
       << [Action("setError", SelectId(i)) EXCEPT !.msg = SelectUserMessage(msg)] >>,
       {})

\* (mutation) without a query the entry is labelled with the details' name
MutHistoryQueryName(task) ==
  IF task.query # NoQuery THEN task.query
  ELSE IF task.details.name # << >> THEN task.details.name
  ELSE <<"Unknown Place">>

\* query || place.description || placeDetails.name || 'Unknown Place'
HistoryQuery(task) ==
  IF task.query # NoQuery THEN task.query
  ELSE IF task.place.description # NoQuery THEN task.place.description
  ELSE IF task.details.name # << >> THEN task.details.name
  ELSE <<"Unknown Place">>

\* (mutation) the history entry is appended without the commit before it
MutSelectCommit(i, task, details) ==
  Step([task EXCEPT !.pc = "hist", !.details = details],
       << [Action("addToSearchHistory", SelectId(i))
             EXCEPT !.query = HistoryQuery([task EXCEPT !.details = details]),
                    !.place = details, !.timestamp = clock] >>, {})

\* yield put(selectPlace(placeDetails))
SelectCommit(i, task, details) ==
  Step([task EXCEPT !.pc = "sel", !.details = details],
       << [Action("selectPlace", SelectId(i)) EXCEPT !.place = details] >>, {})

\* after put(setMapLoading(true)): validation, then getPlaceDetails
SelectAfterLoading(i, task) ==
  IF task.place.shape = "null" \/ task.place.place_id = ""
    THEN SelectFail(i, task, MsgInvalidPlace)
  ELSE IF serviceInstance = "none"
    THEN SelectFail(i, task, MsgNoService)
  ELSE Step([task EXCEPT !.pc = "awaitDetails"], << >>,
            {Call("details", SelectId(i), NoQuery, task.place.place_id)})

\* the fallback built when the details error mentions quota or billing
BasicPlace(place) ==
  [shape |-> "basic", place_id |-> place.place_id, description |-> NoQuery,
   name |-> place.description, geometry |-> NoGeometry]

\* the getPlaceDetails promise settled with `result`
SelectDetailsSettled(i, task, result) ==
  IF result.ok
    THEN SelectCommit(i, task, result.place)
  ELSE IF IncludesAny(result.msg, {"quota", "billing"})
    THEN SelectCommit(i, task, BasicPlace(task.place))
  ELSE SelectFail(i, task, result.msg)

\* yield put(addToSearchHistory(historyEntry))
SelectPutHistory(i, task) ==
  Step([task EXCEPT !.pc = "hist"],
       << [Action("addToSearchHistory", SelectId(i))
             EXCEPT !.query = HistoryQuery(task), !.place = task.details,
                    !.timestamp = clock] >>, {})

\* Once selectPlaceSaga and its updateMapSaga child have both returned,
\* their locals are gone.
SelectEnded(task) ==
  IF task.pc \in {"done", "aborted"} /\ task.mapPc \in {"none", "done"}
    THEN [task EXCEPT !.place = NullPlace, !.query = NoQuery,
                      !.details = NullPlace, !.searches = 0]
    ELSE task

\* the task continues after its put was dispatched
SelectResume(i, task) ==
  CASE task.pc = "m1" -> SelectAfterLoading(i, task)
    [] task.pc = "sel" -> SelectPutHistory(i, task)
    [] task.pc = "hist" ->
         \* fork(updateMapSaga) runs the child to put(clearMarkers()), then
         \* the parent reaches finally: put(setMapLoading(false))
         Step([task EXCEPT !.pc = "fin", !.mapPc = "clr"],
              << Action("clearMarkers", MapId(i)),
                 Action("setMapLoading", SelectId(i)) >>, {})
    [] task.pc = "e1" ->
         Step([task EXCEPT !.pc = "finE"],
              << Action("setMapLoading", SelectId(i)) >>, {})
    [] task.pc = "fin" -> Step(SelectEnded([task EXCEPT !.pc = "done"]), << >>, {})
    [] task.pc = "finE" -> Step(SelectEnded([task EXCEPT !.pc = "aborted"]), << >>, {})
    [] OTHER -> Step(task, << >>, {})

\* updateMapSaga continues after its put was dispatched
MapResume(i, task) ==
  CASE task.mapPc = "clr" ->
         Step([task EXCEPT !.mapPc = "add"],
              << [Action("addMarker", MapId(i))
                    EXCEPT !.marker =
                      [position |->
                         IF task.details.geometry.present
                            /\ task.details.geometry.location.present
                           THEN task.details.geometry.location
                           ELSE NoLocation,
                       title |-> IF task.details.name # << >>
                                   THEN task.details.name
                                   ELSE <<"Selected Place">>,
                       placeId |-> task.details.place_id]] >>, {})
    [] task.mapPc = "add" -> Step(SelectEnded([task EXCEPT !.mapPc = "done"]), << >>, {})
    [] OTHER -> Step(task, << >>, {})

SelectRunning(task) ==
  task.pc \notin {"done", "aborted"} \/ task.mapPc \in {"clr", "add"}


(***************************************************************************)
(* The adapter as the sagas see it                                         *)
(***************************************************************************)
\* How an adapter promise can settle. initialize() inside the call throws
\* the cached initializationError, fails with a loader error, or makes the
\* service ready; only then does the vendor answer.
InitFailures ==
  IF isInitialized THEN {}
  ELSE IF initializationError # NoError THEN {Rejected(initializationError)}
  ELSE {Rejected(e) : e \in InitErrors}

VendorAnswers(call) ==
  IF initializationError # NoError THEN {}
  ELSE CASE call.kind = "init" -> {Resolved(<< >>, NullPlace)}
         [] call.kind = "search" ->
              {SearchResult(call.query, st) :
                 st \in SearchStatuses}
         [] OTHER ->
              {Resolved(<< >>, VendorDetails(call.placeId, sh)) :
                 sh \in DetailShapes} \cup {Rejected(MsgDetailsFailed)}

Outcomes(call) == InitFailures \cup VendorAnswers(call)

IsInitFailure(result) == ~result.ok /\ result.msg \in InitErrors

Idle == queue = << >> /\ flowPc = "take"

(***************************************************************************)
(* Actions of the store and the coordinator                                *)
(***************************************************************************)
\* usePlaces.searchPlaces(query): dispatch(searchPlacesRequest({ query }))
UserSearch(q) ==
  /\ Idle
  /\ submitCount + selectCount < MaxUserActions
  /\ submitCount' = submitCount + 1
  /\ queue' = << [Action("searchPlacesRequest", NoTask) EXCEPT !.query = q] >>
  /\ UNCHANGED <<storeVars, uiVars, flowPc, flowAction, searchTask, searchTasks,
                 selTasks, selectCount, pendingCalls, serviceInstance,
                 serviceVars, hookVars, clock, opCount, directVars>>

\* The places the UI offers for selection: the suggestions and the places
\* of the history panel.
Selectable ==
  {suggestions[i] : i \in 1..Len(suggestions)}
    \cup {searchHistory[i].place : i \in 1..Len(searchHistory)}

\* usePlaces.selectPlace(place, query = ''):
\* dispatch(selectPlaceAction({ place, query }))
UserSelect(place, q) ==
  /\ Idle
  /\ submitCount + selectCount < MaxUserActions
  /\ selectCount' = selectCount + 1
  /\ queue' = << [Action("selectPlace", NoTask)
                    EXCEPT !.place = place, !.envelope = TRUE, !.query = q] >>
  /\ UNCHANGED <<storeVars, uiVars, flowPc, flowAction, searchTask, searchTasks,
                 submitCount, selTasks, pendingCalls, serviceInstance,
                 serviceVars, hookVars, clock, opCount, directVars>>

\* usePlaces.clearSuggestions()
UserClearSuggestions ==
  /\ Idle
  /\ suggestions # << >>
  /\ queue' = << Action("clearSuggestions", NoTask) >>
  /\ UNCHANGED <<storeVars, uiVars, flowPc, flowAction, searchTask, searchTasks,
                 submitCount, selTasks, selectCount, pendingCalls,
                 serviceInstance, serviceVars, hookVars, clock, opCount,
                 directVars>>

\* usePlaces.clearHistory()
UserClearHistory ==
  /\ Idle
  /\ searchHistory # << >>
  /\ queue' = << Action("clearSearchHistory", NoTask) >>
  /\ UNCHANGED <<storeVars, uiVars, flowPc, flowAction, searchTask, searchTasks,
                 submitCount, selTasks, selectCount, pendingCalls,
                 serviceInstance, serviceVars, hookVars, clock, opCount,
                 directVars>>

\* The scheduler dispatches the next queued action: the reducers run, the
\* watchers take it (takeEvery forks selectPlaceSaga, searchFlowSaga leaves
\* its take), and the task whose put it was runs on to its next effect.
Flush ==
  /\ queue # << >>
  /\ flowPc = "take"
  /\ LET a == Head(queue)
         p == PlacesReducer(a)
         u == UiReducer(a)
         forked == a.type = "selectPlace"
         st == SelectStart(Len(selTasks) + 1, a)
         sel1 == IF forked THEN Append(selTasks, st.task) ELSE selTasks
         q1 == IF forked THEN Tail(queue) \o st.puts ELSE Tail(queue)
         k == a.task.k
         id == a.task.id
         r == CASE k = "search" -> SearchResume(id, searchTasks[id])
                [] k = "select" -> SelectResume(id, sel1[id])
                [] k = "map" -> MapResume(id, sel1[id])
                [] OTHER -> Step(NoSearchTask, << >>, {})
     IN  /\ suggestions' = p.suggestions
         /\ searchHistory' = p.searchHistory
         /\ selectedPlace' = p.selectedPlace
         /\ markers' = p.markers
         /\ searchLoading' = u.searchLoading
         /\ mapLoading' = u.mapLoading
         /\ error' = u.error
         /\ searchTasks' = IF k = "search"
                             THEN [searchTasks EXCEPT ![id] = r.task]
                             ELSE searchTasks
         /\ selTasks' = IF k \in {"select", "map"}
                          THEN [sel1 EXCEPT ![id] = r.task]
                          ELSE sel1
         /\ queue' = q1 \o r.puts
         /\ pendingCalls' = pendingCalls \cup r.calls
         /\ flowPc' = IF a.type = "searchPlacesRequest" THEN "cancel" ELSE "take"
         /\ flowAction' = IF a.type = "searchPlacesRequest" THEN a.query
                          ELSE flowAction
  /\ UNCHANGED <<searchTask, submitCount, selectCount, serviceInstance,
                 serviceVars, hookVars, clock, opCount, directVars>>

\* searchFlowSaga: if (searchTask) yield cancel(searchTask)
FlowCancel ==
  /\ flowPc = "cancel"
  /\ LET r == IF searchTask # 0
                THEN CancelTask(searchTask, searchTasks[searchTask])
                ELSE Step(NoSearchTask, << >>, {})
     IN  /\ searchTasks' = IF searchTask # 0
                             THEN [searchTasks EXCEPT ![searchTask] = r.task]
                             ELSE searchTasks
         /\ queue' = queue \o r.puts
  /\ flowPc' = "fork"
  /\ UNCHANGED <<storeVars, uiVars, flowAction, searchTask, submitCount,
                 selTasks, selectCount, pendingCalls, serviceInstance,
                 serviceVars, hookVars, clock, opCount, directVars>>

\* searchFlowSaga: searchTask = yield fork(debouncedSearchSaga, action)
FlowFork ==
  /\ flowPc = "fork"
  /\ LET r == SearchStart(submitCount, flowAction)
     IN  /\ searchTasks' = [searchTasks EXCEPT ![submitCount] = r.task]
         /\ queue' = queue \o r.puts
  /\ searchTask' = submitCount
  /\ flowPc' = "take"
  /\ UNCHANGED <<storeVars, uiVars, flowAction, submitCount, selTasks,
                 selectCount, pendingCalls, serviceInstance, serviceVars,
                 hookVars, clock, opCount, directVars>>

\* delay(300) of search task t elapses
DebounceElapsed(t) ==
  /\ Idle
  /\ searchTasks[t].pc = "debouncing"
  /\ LET r == SearchAfterDelay(t, searchTasks[t])
     IN  /\ searchTasks' = [searchTasks EXCEPT ![t] = r.task]
         /\ queue' = r.puts
         /\ pendingCalls' = pendingCalls \cup r.calls
  /\ UNCHANGED <<storeVars, uiVars, flowPc, flowAction, searchTask, submitCount,
                 selTasks, selectCount, serviceInstance, serviceVars, hookVars,
                 clock, opCount, directVars>>

\* What a settled adapter promise leaves in the service.
ServiceAfter(result) ==
  IF IsInitFailure(result)
    THEN [google |-> google, autocompleteService |-> autocompleteService,
          isInitialized |-> FALSE, initializationError |-> result.msg]
    ELSE [google |-> 1, autocompleteService |-> TRUE,
          isInitialized |-> TRUE, initializationError |-> initializationError]

\* Whether the task is still suspended in the call: a cancelled task is not.
AwaitedBy(call, task) ==
  IF call.kind = "init" THEN task.pc = "initializing" ELSE task.pc = "inflight"

\* The promise of an adapter call made by a search task settles. A task
\* that was cancelled meanwhile is not resumed: the answer is dropped.
SearchCallSettles(call, result) ==
  /\ Idle
  /\ call \in pendingCalls
  /\ call.task.k = "search"
  /\ result \in Outcomes(call)
  /\ LET t == call.task.id
         task == searchTasks[t]
         waiting == AwaitedBy(call, task)
         r == IF ~waiting THEN Step([task EXCEPT !.answers = @ + 1], << >>, {})
              ELSE IF call.kind = "search" THEN SearchSettled(t, task, result)
              ELSE IF result.ok THEN SearchCall(t, task)
              ELSE SearchFail(t, task, result.msg)
         sv == ServiceAfter(result)
     IN  /\ searchTasks' = [searchTasks EXCEPT ![t] = r.task]
         /\ queue' = r.puts
         /\ pendingCalls' = (pendingCalls \ {call}) \cup r.calls
         /\ google' = sv.google
         /\ autocompleteService' = sv.autocompleteService
         /\ isInitialized' = sv.isInitialized
         /\ initializationError' = sv.initializationError
  /\ UNCHANGED <<storeVars, uiVars, flowPc, flowAction, searchTask, submitCount,
                 selTasks, selectCount, serviceInstance, initializationPromise,
                 loads, initPc, callers, hookVars, clock, opCount, directVars>>

\* The getPlaceDetails promise of selection task i settles.
DetailsSettles(call, result) ==
  /\ Idle
  /\ call \in pendingCalls
  /\ call.task.k = "select"
  /\ result \in Outcomes(call)
  /\ LET i == call.task.id
         r == SelectDetailsSettled(i, selTasks[i], result)
         sv == ServiceAfter(result)
     IN  /\ selTasks' = [selTasks EXCEPT ![i] = r.task]
         /\ queue' = r.puts
         /\ pendingCalls' = pendingCalls \ {call}
         /\ google' = sv.google
         /\ autocompleteService' = sv.autocompleteService
         /\ isInitialized' = sv.isInitialized
         /\ initializationError' = sv.initializationError
  /\ UNCHANGED <<storeVars, uiVars, flowPc, flowAction, searchTask, searchTasks,
                 submitCount, selectCount, serviceInstance,
                 initializationPromise, loads, initPc, callers, hookVars,
                 clock, opCount, directVars>>

(***************************************************************************)
(* Initial states                                                          *)
(***************************************************************************)
StoreInit ==
  /\ suggestions = << >>
  /\ searchHistory = << >>
  /\ selectedPlace = NullPlace
  /\ markers = << >>
  /\ searchLoading = FALSE
  /\ mapLoading = FALSE
  /\ error = NoError

SagaInit ==
  /\ queue = << >>
  /\ flowPc = "take"
  /\ flowAction = NoQuery
  /\ searchTask = 0
  /\ searchTasks = [t \in 1..MaxUserActions |-> NoSearchTask]
  /\ submitCount = 0
  /\ selTasks = << >>
  /\ selectCount = 0
  /\ pendingCalls = {}

ServiceInit ==
  /\ google = 0
  /\ autocompleteService = FALSE
  /\ isInitialized = FALSE
  /\ initializationPromise = 0
  /\ initializationError = NoError
  /\ loads = << >>
  /\ initPc = << >>
  /\ callers = << >>

DirectInit ==
  /\ returned = << >>
  /\ lookups = 0
  /\ scriptErrors = 0

\* MapContainer and the hook after the first render and its effects: the
\* hook's 100 ms timer before initMap() and the container's timer before
\* checkDomReady() are pending.
MountInit ==
  /\ initializationAttempted = FALSE
  /\ attempts = 0
  /\ mapInitPc = "timer"
  /\ createMapCalls = 0
  /\ domReady = FALSE
  /\ mapError = NoError
  /\ domTimer = TRUE
  /\ domPolls = 0
  /\ retryCount = 0
  /\ uncaught = 0

HookInit ==
  /\ map = 0
  /\ hookError = NoError
  /\ markersRef = << >>
  /\ lastProcessedPlaceId = << >>
  /\ mapCenter = NoLocation
  /\ mapZoom = 0
  /\ nextMarkerId = 1
  /\ visibleMarkers = {}
  /\ markerThrows = 0
  /\ MountInit

Init ==
  /\ StoreInit
  /\ SagaInit
  /\ serviceInstance \in {"imported", "none"}
  /\ ServiceInit
  /\ HookInit
  /\ DirectInit
  /\ clock = 0
  /\ opCount = 0

Next ==
  \/ \E q \in Queries : UserSearch(q)
  \/ \E place \in Selectable, q \in {NoQuery, flowAction} : UserSelect(place, q)
  \/ UserClearSuggestions
  \/ UserClearHistory
  \/ Flush
  \/ FlowCancel
  \/ FlowFork
  \/ \E t \in 1..MaxUserActions : DebounceElapsed(t)
  \/ \E call \in pendingCalls : \E result \in Outcomes(call) :
       SearchCallSettles(call, result)
  \/ \E call \in pendingCalls : \E result \in Outcomes(call) :
       DetailsSettles(call, result)

Spec == Init /\ [][Next]_vars


(***************************************************************************)
(* The search history on its own: addToSearchHistory and                   *)
(* clearSearchHistory dispatched to a store whose history already holds    *)
(* up to HistoryLimit places.                                              *)
(***************************************************************************)
HistoryPlaces ==
  << "h01", "h02", "h03", "h04", "h05", "h06", "h07", "h08", "h09", "h10",
     "h11", "h12", "h13", "h14", "h15", "h16", "h17", "h18", "h19", "h20",
     "h21", "h22" >>

\* The history after HistoryPlaces[1..n] were selected one after the other
\* at times 1..n: the entries the reducer built, the latest first.
SeededHistory(n) ==
  [i \in 1..n |->
     HistoryEntry(NameOf(HistoryPlaces[n + 1 - i]),
                  SerializePlace(VendorDetails(HistoryPlaces[n + 1 - i], "fn")),
                  n + 1 - i, n + 1 - i)]

HistoryInit ==
  /\ \E n \in 0..HistoryLimit :
       /\ searchHistory = SeededHistory(n)
       /\ selectedPlace = IF n = 0 THEN NullPlace ELSE SeededHistory(n)[1].place
       /\ clock = n + 1
  /\ suggestions = << >>
  /\ markers = << >>
  /\ searchLoading = FALSE
  /\ mapLoading = FALSE
  /\ error = NoError
  /\ SagaInit
  /\ serviceInstance = "imported"
  /\ ServiceInit
  /\ HookInit
  /\ DirectInit
  /\ opCount = 0

\* store.dispatch(a): the places reducer runs, time passes
DispatchToStore(a) ==
  LET p == PlacesReducer(a)
  IN  /\ opCount < MaxHistoryOps
      /\ opCount' = opCount + 1
      /\ suggestions' = p.suggestions
      /\ searchHistory' = p.searchHistory
      /\ selectedPlace' = p.selectedPlace
      /\ markers' = p.markers
      /\ clock' = clock + 1
      /\ UNCHANGED <<uiVars, sagaVars, serviceVars, hookVars, directVars>>

\* dispatch(addToSearchHistory({ query, place, timestamp: Date.now() }))
DispatchAddToSearchHistory(pid) ==
  DispatchToStore([Action("addToSearchHistory", NoTask)
                     EXCEPT !.query = NameOf(pid),
                            !.place = VendorDetails(pid, "fn"),
                            !.timestamp = clock])

\* dispatch(clearSearchHistory())
DispatchClearSearchHistory ==
  /\ searchHistory # << >>
  /\ DispatchToStore(Action("clearSearchHistory", NoTask))

HistoryNext ==
  \/ \E k \in 1..Len(HistoryPlaces) : DispatchAddToSearchHistory(HistoryPlaces[k])
  \/ DispatchClearSearchHistory

SpecHistory == HistoryInit /\ [][HistoryNext]_vars

(***************************************************************************)
(* Claims about the search history                                         *)
(***************************************************************************)
HistoryIds(hist) == [i \in 1..Len(hist) |-> hist[i].place.place_id]

\* an entry was added in this step (a cleared history has no head)
HistoryAdded == searchHistory' # searchHistory /\ searchHistory' # << >>

\* the entries of hist for places other than pid, in their order
OtherEntries(hist, pid) == SelectSeq(hist, LAMBDA e : e.place.place_id # pid)

\* C5: no two history entries have the same place identifier; when an entry
\* is added for a place already in the history, the one entry for it is at
\* the front and the other entries keep their relative order.
C5_HistoryUniqueMoveToFront ==
  /\ [](\A i, j \in 1..Len(searchHistory) :
          i # j => searchHistory[i].place.place_id # searchHistory[j].place.place_id)
  /\ [][ HistoryAdded =>
           LET pid == searchHistory'[1].place.place_id
               others == OtherEntries(searchHistory, pid)
               rest == Tail(searchHistory')
           IN  /\ \A i \in 1..Len(rest) : rest[i].place.place_id # pid
               /\ Len(rest) <= Len(others)
               /\ rest = SubSeq(others, 1, Len(rest))
               /\ (pid \in {searchHistory[i].place.place_id :
                              i \in 1..Len(searchHistory)}) => rest = others
       ]_vars

\* C5 witness: in a full history the place third from the end was added
\* again: it is at the front, once, and the others follow in their order.
C5_Witness ==
  /\ Len(searchHistory) = HistoryLimit
  /\ HistoryIds(searchHistory) =
       << "h03" >> \o [i \in 1..(HistoryLimit - 1) |->
                         IF i <= HistoryLimit - 3
                           THEN HistoryPlaces[HistoryLimit + 1 - i]
                           ELSE HistoryPlaces[HistoryLimit - i]]
  /\ searchHistory[1].timestamp > searchHistory[2].timestamp

\* C6: the history never holds more than HistoryLimit entries; when an
\* entry for a place not in a full history is added, the oldest (last)
\* entry is dropped and the others follow the new entry in their order.
C6_HistoryBounded ==
  /\ [](Len(searchHistory) <= HistoryLimit)
  /\ [][ (/\ HistoryAdded
          /\ Len(searchHistory) = HistoryLimit
          /\ \A i \in 1..Len(searchHistory) :
               searchHistory[i].place.place_id # searchHistory'[1].place.place_id)
         => /\ Len(searchHistory') = HistoryLimit
            /\ Tail(searchHistory') = SubSeq(searchHistory, 1, HistoryLimit - 1)
       ]_vars

\* C6 witness: a 21st place was added to a history of 20: the first place
\* ever selected is gone and the 20 most recent remain, newest first.
C6_Witness ==
  /\ Len(searchHistory) = HistoryLimit
  /\ HistoryIds(searchHistory) =
       [i \in 1..HistoryLimit |-> HistoryPlaces[HistoryLimit + 2 - i]]
  /\ \A i \in 1..(HistoryLimit - 1) :
       searchHistory[i].timestamp > searchHistory[i + 1].timestamp

(***************************************************************************)
(* GoogleMapsService.initialize and _performInitialization on their own.   *)
(* google is 0 for null, otherwise the SDK object of the load that made it;*)
(* initializationPromise is 0 for null, otherwise the activation of        *)
(* _performInitialization whose promise it is.                             *)
(***************************************************************************)
MsgNoPlaces == "Places library not loaded. Check if Places API is enabled."

\* the methods through which the program reaches initialize()
CallerKinds == {"initialize", "searchPlaces", "getPlaceDetails"}

\* what loader.load() can settle with: the SDK, the SDK without the places
\* library, or an error
LoadOutcomes == {"sdk", "sdkNoPlaces"} \cup InitErrors

\* (mutation) initialize() does not look at the promise of a load in flight
MutInitializeBranch ==
  IF initializationError # NoError THEN "throw"
  ELSE IF isInitialized /\ google # 0 /\ autocompleteService THEN "ready"
  ELSE "start"

\* (mutation) initialize() does not look at the cached error
MutInitializeIgnoresError ==
  IF isInitialized /\ google # 0 /\ autocompleteService THEN "ready"
  ELSE IF initializationPromise # 0 THEN "join"
  ELSE "start"

\* the branch initialize() takes
InitializeBranch ==
  IF initializationError # NoError THEN "throw"
  ELSE IF isInitialized /\ google # 0 /\ autocompleteService THEN "ready"
  ELSE IF initializationPromise # 0 THEN "join"
  ELSE "start"

Caller(via, pc, promise, handle, err) ==
  [via |-> via, pc |-> pc, promise |-> promise, handle |-> handle, err |-> err]

\* the promises of the callers that returned activation k's promise settle
SettleCallers(k, ok, handle, err) ==
  [c \in 1..Len(callers) |->
     IF callers[c].pc = "waiting" /\ callers[c].promise = k
       THEN IF ok THEN [callers[c] EXCEPT !.pc = "resolved", !.handle = handle]
            ELSE [callers[c] EXCEPT !.pc = "rejected", !.err = err]
       ELSE callers[c]]

\* catch (error) of _performInitialization
InitializationFails(k, msg) ==
  /\ isInitialized' = FALSE
  /\ initializationPromise' = 0
  /\ initializationError' = msg
  /\ initPc' = [initPc EXCEPT ![k] = "failed"]
  /\ callers' = SettleCallers(k, FALSE, 0, msg)

\* A caller calls initialize(); a fresh initialization runs
\* _performInitialization up to `await this.loader.load()`.
Initialize(via) ==
  /\ Len(callers) < MaxCallers
  /\ LET k == Len(loads) + 1
     IN  CASE InitializeBranch = "throw" ->
                /\ callers' = Append(callers,
                                Caller(via, "rejected", 0, 0, initializationError))
                /\ UNCHANGED <<initializationPromise, loads, initPc>>
           [] InitializeBranch = "ready" ->
                /\ callers' = Append(callers,
                                Caller(via, "resolved", 0, google, NoError))
                /\ UNCHANGED <<initializationPromise, loads, initPc>>
           [] InitializeBranch = "join" ->
                /\ callers' = Append(callers,
                                Caller(via, "waiting", initializationPromise, 0,
                                       NoError))
                /\ UNCHANGED <<initializationPromise, loads, initPc>>
           [] OTHER ->
                /\ loads' = Append(loads, "pending")
                /\ initPc' = Append(initPc, "loading")
                /\ initializationPromise' = k
                /\ callers' = Append(callers, Caller(via, "waiting", k, 0, NoError))
  /\ UNCHANGED <<storeVars, uiVars, sagaVars, google, autocompleteService,
                 isInitialized, initializationError, hookVars, clock, opCount,
                 directVars>>

\* loader.load() of activation k settles; on success the activation goes on
\* to the places check, creates the AutocompleteService and awaits
\* _testService()
LoadSettles(k, outcome) ==
  /\ k \in 1..Len(loads)
  /\ loads[k] = "pending"
  /\ IF outcome \in InitErrors
       THEN /\ loads' = [loads EXCEPT ![k] = "rejected"]
            /\ InitializationFails(k, outcome)
            /\ UNCHANGED <<google, autocompleteService>>
     ELSE IF outcome = "sdkNoPlaces"
       THEN /\ loads' = [loads EXCEPT ![k] = "resolved"]
            /\ google' = k
            /\ InitializationFails(k, MsgNoPlaces)
            /\ UNCHANGED autocompleteService
     ELSE /\ loads' = [loads EXCEPT ![k] = "resolved"]
          /\ google' = k
          /\ autocompleteService' = TRUE
          /\ initPc' = [initPc EXCEPT ![k] = "testing"]
          /\ UNCHANGED <<isInitialized, initializationPromise,
                         initializationError, callers>>
  /\ UNCHANGED <<storeVars, uiVars, sagaVars, hookVars, clock, opCount, directVars>>

\* _testService() of activation k settles; a failed test is only logged
TestServiceSettles(k, passed) ==
  /\ k \in 1..Len(initPc)
  /\ initPc[k] = "testing"
  /\ isInitialized' = TRUE
  /\ initializationPromise' = 0
  /\ initPc' = [initPc EXCEPT ![k] = "done"]
  /\ callers' = SettleCallers(k, TRUE, google, NoError)
  /\ UNCHANGED <<storeVars, uiVars, sagaVars, google, autocompleteService,
                 initializationError, loads, hookVars, clock, opCount,
                 directVars>>

ServiceNext ==
  \/ \E via \in CallerKinds : Initialize(via)
  \/ \E k \in 1..MaxCallers, outcome \in LoadOutcomes : LoadSettles(k, outcome)
  \/ \E k \in 1..MaxCallers, passed \in BOOLEAN : TestServiceSettles(k, passed)

SpecService == Init /\ [][ServiceNext]_vars

(***************************************************************************)
(* The service with reset(). reset() can be called while a load is in      *)
(* flight; the loads then in flight belong to the one Loader instance of   *)
(* the constructor, which settles all of them together.                    *)
(***************************************************************************)
PendingLoads == {k \in 1..Len(loads) : loads[k] = "pending"}

\* the lowest number in a non-empty set of load numbers
FirstOf(S) == CHOOSE k \in S : \A j \in S : k <= j

\* reset()
Reset ==
  /\ opCount < MaxResets
  /\ opCount' = opCount + 1
  /\ google' = 0
  /\ autocompleteService' = FALSE
  /\ isInitialized' = FALSE
  /\ initializationPromise' = 0
  /\ initializationError' = NoError
  /\ UNCHANGED <<storeVars, uiVars, sagaVars, loads, initPc, callers, hookVars,
                 clock, directVars>>

\* The Loader settles: every loader.load() promise in flight settles with
\* the same outcome, and each activation of _performInitialization awaiting
\* one runs on to its next await or to its catch.
LoaderSettles(outcome) ==
  /\ PendingLoads # {}
  /\ LET failed == outcome # "sdk"
         msg == IF outcome = "sdkNoPlaces" THEN MsgNoPlaces ELSE outcome
     IN  /\ loads' = [k \in 1..Len(loads) |->
                        IF k \notin PendingLoads THEN loads[k]
                        ELSE IF outcome \in InitErrors THEN "rejected"
                        ELSE "resolved"]
         /\ initPc' = [k \in 1..Len(initPc) |->
                         IF k \notin PendingLoads THEN initPc[k]
                         ELSE IF failed THEN "failed" ELSE "testing"]
         /\ google' = IF outcome \in InitErrors THEN google
                      ELSE FirstOf(PendingLoads)
         /\ autocompleteService' = IF failed THEN autocompleteService ELSE TRUE
         /\ isInitialized' = IF failed THEN FALSE ELSE isInitialized
         /\ initializationPromise' = IF failed THEN 0 ELSE initializationPromise
         /\ initializationError' = IF failed THEN msg ELSE initializationError
         /\ callers' = [c \in 1..Len(callers) |->
                          IF failed /\ callers[c].pc = "waiting"
                             /\ callers[c].promise \in PendingLoads
                            THEN [callers[c] EXCEPT !.pc = "rejected", !.err = msg]
                            ELSE callers[c]]
  /\ UNCHANGED <<storeVars, uiVars, sagaVars, hookVars, clock, opCount, directVars>>

ServiceResetNext ==
  \/ \E via \in CallerKinds : Initialize(via)
  \/ \E outcome \in LoadOutcomes : LoaderSettles(outcome)
  \/ \E k \in 1..MaxCallers, passed \in BOOLEAN : TestServiceSettles(k, passed)
  \/ Reset

\* the module-level instance exists: `new GoogleMapsService()` did not throw
ServiceResetInit ==
  /\ StoreInit
  /\ SagaInit
  /\ serviceInstance = "imported"
  /\ ServiceInit
  /\ HookInit
  /\ DirectInit
  /\ clock = 0
  /\ opCount = 0

SpecServiceReset == ServiceResetInit /\ [][ServiceResetNext]_vars

(***************************************************************************)
(* Claims about the service                                                *)
(***************************************************************************)
Settled(c) == callers[c].pc \in {"resolved", "rejected"}

\* C3: however many callers call initialize() before the load completes,
\* the SDK is loaded once; every caller that resolves gets the one SDK
\* object of that load, from a service that is ready; and all callers see
\* the same outcome.
C3_InitializeOnce ==
  /\ Len(loads) <= 1
  /\ \A c \in 1..Len(callers) :
       callers[c].pc = "resolved" =>
         /\ callers[c].handle = 1
         /\ google = 1 /\ autocompleteService /\ isInitialized
         /\ loads = << "resolved" >>
  /\ \A c, d \in 1..Len(callers) :
       (Settled(c) /\ Settled(d)) =>
         /\ callers[c].pc = callers[d].pc
         /\ callers[c].handle = callers[d].handle
         /\ callers[c].err = callers[d].err

\* C3 witness: every caller called before the load completed, and all of
\* them resolved with the SDK object of the single load.
C3_Witness ==
  /\ Len(callers) = MaxCallers
  /\ Len(loads) = 1
  /\ \A c \in 1..Len(callers) :
       /\ callers[c].pc = "resolved"
       /\ callers[c].promise = 1
       /\ callers[c].handle = 1

\* a caller called initialize() in this step
CallerAdded == Len(callers') = Len(callers) + 1

\* the service as reset() leaves it
ServiceBlank ==
  /\ google = 0 /\ ~autocompleteService /\ ~isInitialized
  /\ initializationPromise = 0 /\ initializationError = NoError

\* C11: when a load fails, the callers awaiting it are rejected and the
\* error is cached; while it is cached every initialize() call is rejected
\* with that same error and starts no load; the cached error changes only
\* by reset(), which blanks the service; and initialize() on the blank
\* service starts a new load.
C11_FailureCachedUntilReset ==
  [][ /\ (initializationError = NoError /\ initializationError' # NoError) =>
           \A c \in 1..Len(callers) :
             (callers[c].pc = "waiting" /\ callers[c].promise \in PendingLoads) =>
               /\ callers'[c].pc = "rejected"
               /\ callers'[c].err = initializationError'
      /\ (initializationError # NoError /\ CallerAdded) =>
           /\ callers'[Len(callers')].pc = "rejected"
           /\ callers'[Len(callers')].err = initializationError
           /\ loads' = loads
           /\ initializationPromise' = initializationPromise
      /\ (initializationError # NoError
          /\ initializationError' # initializationError) =>
           (opCount' = opCount + 1 /\ ServiceBlank')
      /\ opCount' # opCount => ServiceBlank'
      /\ (ServiceBlank /\ CallerAdded) =>
           /\ Len(loads') = Len(loads) + 1
           /\ loads'[Len(loads')] = "pending"
           /\ callers'[Len(callers')].pc = "waiting"
    ]_vars

\* C11 witness: the first load failed, a later caller was rejected with the
\* cached error without a load, reset() was called, and the caller after
\* it awaits a second load.
C11_Witness ==
  /\ opCount = 1
  /\ loads = << "rejected", "pending" >>
  /\ Len(callers) = 3
  /\ callers[1].pc = "rejected" /\ callers[1].promise = 1
  /\ callers[2].pc = "rejected" /\ callers[2].promise = 0
  /\ callers[2].err = callers[1].err
  /\ callers[3].pc = "waiting" /\ callers[3].promise = 2
  /\ initializationError = NoError

(***************************************************************************)
(* GoogleMapsService.searchPlaces called directly, with any query string   *)
(* and any status of the vendor's PlacesServiceStatus.                     *)
(***************************************************************************)
VendorStatuses ==
  {"OK", "ZERO_RESULTS", "INVALID_REQUEST", "OVER_QUERY_LIMIT",
   "REQUEST_DENIED", "UNKNOWN_ERROR", "NOT_FOUND"}

DirectQueries ==
  { << >>, <<"k">>, <<" ">>, <<"k", " ">>, <<"k", "l">>, <<" ", "k", "l">> }

\* (mutation) only the empty string is turned away
MutQueryRejected(q) == q = << >>

\* !query || typeof query !== 'string' || query.trim().length < 2
QueryRejected(q) == q = << >> \/ Len(Trim(q)) < MinQueryLength

\* One call of searchPlaces: its argument, where it stands ("initializing",
\* "lookup", "resolved", "rejected"), what its promise settled with and
\* the status the vendor answered with ("none": the vendor did not answer).
Returned(q, pc, result, status) ==
  [query |-> q, pc |-> pc, result |-> result, status |-> status]

NoResult == Resolved(<< >>, NullPlace)

\* searchPlaces(q) up to its first await
SearchPlacesCalled(q) ==
  /\ opCount < MaxSearchCalls
  /\ opCount' = opCount + 1
  /\ IF QueryRejected(q)
       THEN /\ returned' = Append(returned, Returned(q, "resolved", NoResult, "none"))
            /\ UNCHANGED lookups
     ELSE IF isInitialized
       THEN /\ returned' = Append(returned, Returned(q, "lookup", NoResult, "none"))
            /\ lookups' = lookups + 1
     ELSE /\ returned' = Append(returned, Returned(q, "initializing", NoResult, "none"))
          /\ UNCHANGED lookups
  /\ UNCHANGED <<storeVars, uiVars, sagaVars, serviceVars, hookVars, clock,
                 scriptErrors>>

\* The Loader is built with `retries: 3`: a failed load of the SDK script is
\* counted and the script is inserted again until more than LoaderRetries
\* loads have failed; only then does loader.load() reject.
LoaderRetries == 3

\* Whether the initialisation awaited now runs loader.load(): not when the
\* adapter is initialised or holds a cached failure.
LoaderRuns == ~isInitialized /\ initializationError = NoError

\* The SDK script fails to load and the Loader retries it.
ScriptLoadFails ==
  /\ \E i \in 1..Len(returned) : returned[i].pc = "initializing"
  /\ LoaderRuns
  /\ scriptErrors < LoaderRetries
  /\ scriptErrors' = scriptErrors + 1
  /\ UNCHANGED <<storeVars, uiVars, sagaVars, serviceVars, hookVars, returned,
                 lookups, clock, opCount>>

\* `await this.initialize()` of call i settles; after a success the call
\* goes on to getPlacePredictions. The settlement that completes the
\* initialisation comes after the lookup of _testService; a rejection by
\* the Loader comes with the script failure that exhausts the retries.
DirectInitSettles(i, result) ==
  /\ i \in 1..Len(returned)
  /\ returned[i].pc = "initializing"
  /\ result \in Outcomes(Call("init", NoTask, NoQuery, ""))
  /\ IF LoaderRuns /\ ~result.ok
       THEN /\ scriptErrors = LoaderRetries
            /\ scriptErrors' = scriptErrors + 1
       ELSE UNCHANGED scriptErrors
  /\ LET sv == ServiceAfter(result)
     IN  /\ google' = sv.google
         /\ autocompleteService' = sv.autocompleteService
         /\ isInitialized' = sv.isInitialized
         /\ initializationError' = sv.initializationError
  /\ IF result.ok
       THEN /\ returned' = [returned EXCEPT ![i].pc = "lookup"]
            /\ lookups' = lookups + (IF isInitialized THEN 1 ELSE 2)
       ELSE /\ returned' = [returned EXCEPT ![i].pc = "rejected",
                                            ![i].result = result]
            /\ UNCHANGED lookups
  /\ UNCHANGED <<storeVars, uiVars, sagaVars, initializationPromise, loads,
                 initPc, callers, hookVars, clock, opCount>>

\* the callback of getPlacePredictions runs with `status`
DirectLookupSettles(i, status) ==
  /\ i \in 1..Len(returned)
  /\ returned[i].pc = "lookup"
  /\ LET result == SearchResult(Trim(returned[i].query), status)
     IN  returned' = [returned EXCEPT
                        ![i].pc = IF result.ok THEN "resolved" ELSE "rejected",
                        ![i].result = result,
                        ![i].status = status]
  /\ UNCHANGED <<storeVars, uiVars, sagaVars, serviceVars, hookVars, lookups,
                 scriptErrors, clock, opCount>>

SearchPlacesNext ==
  \/ \E q \in DirectQueries : SearchPlacesCalled(q)
  \/ ScriptLoadFails
  \/ \E i \in 1..MaxSearchCalls :
       \E result \in Outcomes(Call("init", NoTask, NoQuery, "")) :
         DirectInitSettles(i, result)
  \/ \E i \in 1..MaxSearchCalls, status \in VendorStatuses :
       DirectLookupSettles(i, status)

SpecSearchPlaces == Init /\ [][SearchPlacesNext]_vars

(***************************************************************************)
(* Claims about searchPlaces                                               *)
(***************************************************************************)
\* C17: a call of searchPlaces with a query of fewer than 2 characters is
\* answered with the empty list in the step of the call, and that step
\* makes no vendor lookup and starts no initialisation.
C17_ShortQueryNoLookup ==
  [][ \A i \in 1..Len(returned') :
        Len(returned'[i].query) < MinQueryLength
        => /\ returned'[i].pc = "resolved"
           /\ returned'[i].result = NoResult
           /\ returned'[i].status = "none"
           /\ i > Len(returned) => (lookups' = lookups /\ serviceVars' = serviceVars)
    ]_vars

\* C17 witness: two calls with queries of one character, one of them a
\* letter, were answered and the vendor was never called.
C17_Witness ==
  /\ Len(returned) = 2
  /\ returned[1].query = <<"k">> /\ returned[1].pc = "resolved"
  /\ returned[2].query = <<" ">> /\ returned[2].pc = "resolved"
  /\ returned[1].result.list = << >>
  /\ lookups = 0

\* C19 (as claimed): a call that the vendor answered with a status other
\* than OK and ZERO_RESULTS is rejected with an error whose message holds
\* that status code.
C19_ErrorCarriesStatus ==
  \A i \in 1..Len(returned) :
    returned[i].status \notin {"none", "OK", "ZERO_RESULTS"}
    => /\ returned[i].pc = "rejected"
       /\ returned[i].result.msg = SearchFailedText(returned[i].status)

\* The calls of searchPlaces that have gone as far as their vendor lookup.
IssuedLookup == {i \in 1..Len(returned) : returned[i].pc = "lookup"
                                            \/ returned[i].status # "none"}

\* C26 (as claimed): the adapter performs no retries. The vendor has been
\* asked for predictions exactly once for each call of searchPlaces that
\* went as far as its lookup; a failed load of the SDK script is reported to
\* a waiting caller in the same step instead of being attempted again; and
\* the answer to a lookup settles its call without another lookup.
C26_NoRetries ==
  [][ /\ lookups' = Cardinality(IssuedLookup')
      /\ scriptErrors' > scriptErrors
           => \E i \in 1..Len(returned) :
                /\ returned[i].pc = "initializing"
                /\ returned'[i].pc = "rejected"
      /\ \A i \in 1..Len(returned) :
           (returned[i].pc = "lookup" /\ returned'[i] # returned[i])
             => /\ returned'[i].pc \in {"resolved", "rejected"}
                /\ lookups' = lookups ]_vars

\* C26, the parts taken apart: the script is loaded again after a failure,
\* and the first call to initialise the adapter comes with two lookups.
C26_FailedLoadReported == scriptErrors <= 1
C26_OneLookupPerCall == lookups = Cardinality(IssuedLookup)

(***************************************************************************)
(* useGoogleMaps: map creation, the auto-pinning effect and the helpers.   *)
(* map is 0 for null and 1 for the map instance; lastProcessedPlaceId is   *)
(* << >> for null and otherwise the text of the identifier.                *)
(***************************************************************************)
MsgNotInitialized == "Google Maps API not initialized"
MsgAutoPinFailed == "Auto-pinning failed: InvalidValueError"

\* what `new google.maps.Marker(...)` does
MarkerOutcomes == {"ok", "throws"}

\* createMap: center { lat: 3.1390, lng: 101.6869 }
DefaultCenter ==
  [present |-> TRUE, lat |-> NumCoord(31390), lng |-> NumCoord(1016869)]

\* selectedPlace.geometry?.location
HasLocation(place) ==
  place.shape # "null" /\ place.geometry.present /\ place.geometry.location.present

\* selectedPlace.place_id || selectedPlace.name
PlaceKey(place) ==
  IF place.place_id # "" THEN << place.place_id >>
  ELSE IF place.name # << >> THEN place.name
  ELSE << "undefined" >>

MarkerIds(ms) == {ms[i].id : i \in 1..Len(ms)}

\* the hook's refs and the map after some code ran
HookState ==
  [hookError |-> hookError, markersRef |-> markersRef,
   lastProcessedPlaceId |-> lastProcessedPlaceId, mapCenter |-> mapCenter,
   mapZoom |-> mapZoom, nextMarkerId |-> nextMarkerId,
   visibleMarkers |-> visibleMarkers, markerThrows |-> markerThrows]

\* (mutation) the effect clears the markers before it looks at the place
MutAutoPinClearsFirst(h, m, place, outcome) ==
  IF m = 0 THEN h
  ELSE [h EXCEPT !.visibleMarkers = @ \ MarkerIds(h.markersRef),
                 !.markersRef = << >>]

\* The effect on [map, selectedPlace], run with map m and place `place`
\* from hook state h; `outcome` is what the Marker constructor does.
AutoPinEffect(h, m, place, outcome) ==
  IF m = 0 \/ ~HasLocation(place) THEN h
  ELSE IF PlaceKey(place) = h.lastProcessedPlaceId THEN h
  ELSE LET position == [present |-> TRUE, lat |-> place.geometry.location.lat,
                        lng |-> place.geometry.location.lng]
           title == IF place.name # << >> THEN place.name
                    ELSE <<"Selected Place">>
           cleared == [h EXCEPT !.lastProcessedPlaceId = PlaceKey(place),
                                !.visibleMarkers = @ \ MarkerIds(h.markersRef),
                                !.markersRef = << >>]
       IN  IF outcome = "ok"
             THEN [cleared EXCEPT
                     !.markersRef = << [id |-> h.nextMarkerId,
                                        position |-> position,
                                        title |-> title] >>,
                     !.visibleMarkers = @ \cup {h.nextMarkerId},
                     !.nextMarkerId = @ + 1,
                     !.mapCenter = position,
                     !.mapZoom = PinZoom]
             ELSE [cleared EXCEPT !.hookError = MsgAutoPinFailed,
                                  !.markerThrows = @ + 1]

SetHookState(h) ==
  /\ hookError' = h.hookError
  /\ markersRef' = h.markersRef
  /\ lastProcessedPlaceId' = h.lastProcessedPlaceId
  /\ mapCenter' = h.mapCenter
  /\ mapZoom' = h.mapZoom
  /\ nextMarkerId' = h.nextMarkerId
  /\ visibleMarkers' = h.visibleMarkers
  /\ markerThrows' = h.markerThrows

MapOp ==
  /\ opCount < MaxMapOps
  /\ opCount' = opCount + 1

\* initMap succeeds: setMap(mapInstance), setError(null); the render that
\* follows runs the auto-pinning effect
InitMapSucceeds(outcome) ==
  /\ MapOp
  /\ map = 0
  /\ map' = 1
  /\ SetHookState(AutoPinEffect([HookState EXCEPT !.hookError = NoError,
                                                  !.mapCenter = DefaultCenter,
                                                  !.mapZoom = DefaultZoom],
                                1, selectedPlace, outcome))
  /\ UNCHANGED <<storeVars, uiVars, sagaVars, serviceVars, clock, mountVars,
                 directVars>>

\* initMap fails: createMap threw, setError(error.message), setMap(null)
InitMapFails ==
  /\ MapOp
  /\ map = 0
  /\ hookError' = MsgNotInitialized
  /\ UNCHANGED <<storeVars, uiVars, sagaVars, serviceVars, map, markersRef,
                 lastProcessedPlaceId, mapCenter, mapZoom, nextMarkerId,
                 visibleMarkers, markerThrows, clock, mountVars, directVars>>

\* the payloads of the selectPlace actions the program dispatches
SelectPayloads ==
  {Prediction(pid, NameOf(pid)) : pid \in PlaceIds}
    \cup {VendorDetails(pid, sh) : pid \in PlaceIds, sh \in DetailShapes}

\* A selectPlace action reaches the store; the render that follows runs the
\* auto-pinning effect with the new selected place.
StoreSelectsPlace(place, outcome) ==
  /\ MapOp
  /\ LET p == PlacesReducer([Action("selectPlace", NoTask) EXCEPT !.place = place])
     IN  /\ suggestions' = p.suggestions
         /\ selectedPlace' = p.selectedPlace
         /\ SetHookState(IF p.selectedPlace = selectedPlace THEN HookState
                         ELSE AutoPinEffect(HookState, map, p.selectedPlace,
                                            outcome))
  /\ UNCHANGED <<searchHistory, markers, uiVars, sagaVars, serviceVars, map,
                 clock, mountVars, directVars>>

\* the hook's addMarker(position, title)
HelperAddMarker(position, outcome) ==
  /\ MapOp
  /\ map # 0
  /\ IF outcome = "ok"
       THEN /\ markersRef' = Append(markersRef,
                               [id |-> nextMarkerId, position |-> position,
                                title |-> <<"Marker">>])
            /\ visibleMarkers' = visibleMarkers \cup {nextMarkerId}
            /\ nextMarkerId' = nextMarkerId + 1
            /\ UNCHANGED markerThrows
       ELSE /\ markerThrows' = markerThrows + 1
            /\ UNCHANGED <<markersRef, visibleMarkers, nextMarkerId>>
  /\ UNCHANGED <<storeVars, uiVars, sagaVars, serviceVars, map, hookError,
                 lastProcessedPlaceId, mapCenter, mapZoom, clock, mountVars,
                 directVars>>

\* the hook's clearMarkers()
HelperClearMarkers ==
  /\ MapOp
  /\ markersRef # << >>
  /\ visibleMarkers' = visibleMarkers \ MarkerIds(markersRef)
  /\ markersRef' = << >>
  /\ UNCHANGED <<storeVars, uiVars, sagaVars, serviceVars, map, hookError,
                 lastProcessedPlaceId, mapCenter, mapZoom, nextMarkerId,
                 markerThrows, clock, mountVars, directVars>>

\* the hook's centerMap(position, zoom = 15)
HelperCenterMap(position, zoom) ==
  /\ MapOp
  /\ map # 0
  /\ mapCenter' = position
  /\ mapZoom' = zoom
  /\ UNCHANGED <<storeVars, uiVars, sagaVars, serviceVars, map, hookError,
                 markersRef, lastProcessedPlaceId, nextMarkerId,
                 visibleMarkers, markerThrows, clock, mountVars, directVars>>

HelperPositions ==
  {DefaultCenter,
   [present |-> TRUE, lat |-> NumCoord(LatOf("p1")), lng |-> NumCoord(LngOf("p1"))]}

MapNext ==
  \/ \E outcome \in MarkerOutcomes : InitMapSucceeds(outcome)
  \/ InitMapFails
  \/ \E place \in SelectPayloads, outcome \in MarkerOutcomes :
       StoreSelectsPlace(place, outcome)
  \/ \E position \in HelperPositions, outcome \in MarkerOutcomes :
       HelperAddMarker(position, outcome)
  \/ HelperClearMarkers
  \/ \E position \in HelperPositions, zoom \in {PinZoom, DefaultZoom} :
       HelperCenterMap(position, zoom)

SpecMap == Init /\ [][MapNext]_vars

(***************************************************************************)
(* Claims about the map hook                                               *)
(***************************************************************************)
\* C10 (as claimed): when, with the map loaded, the selected place changes
\* to a place with another identifier that has a geometry location, and
\* the Marker constructor does not throw, then afterwards the hook holds
\* exactly one marker, it is at the place's location, no other marker is
\* visible, the map is centred there and the zoom is PinZoom.
C10_NewPlacePinned ==
  [][ (/\ map = 1 /\ map' = 1
       /\ selectedPlace' # selectedPlace
       /\ selectedPlace'.place_id # selectedPlace.place_id
       /\ HasLocation(selectedPlace')
       /\ markerThrows' = markerThrows)
      => /\ Len(markersRef') = 1
         /\ markersRef'[1].position.lat = selectedPlace'.geometry.location.lat
         /\ markersRef'[1].position.lng = selectedPlace'.geometry.location.lng
         /\ visibleMarkers' = {markersRef'[1].id}
         /\ mapCenter' = markersRef'[1].position
         /\ mapZoom' = PinZoom
    ]_vars

\* C22: when the selected place changes to a place without a geometry
\* location, the hook leaves the map as it is: the same markers are held
\* and shown, centre and zoom stay, and the place is not noted as
\* processed.
C22_NoGeometryKeepsMarkers ==
  [][ (selectedPlace' # selectedPlace /\ ~HasLocation(selectedPlace'))
      => /\ markersRef' = markersRef
         /\ visibleMarkers' = visibleMarkers
         /\ mapCenter' = mapCenter
         /\ mapZoom' = mapZoom
         /\ lastProcessedPlaceId' = lastProcessedPlaceId
    ]_vars

\* C22 witness: a marker set for an earlier selection stands on the map
\* while the selected place is one without geometry.
C22_Witness ==
  /\ map = 1
  /\ selectedPlace.shape # "null"
  /\ ~HasLocation(selectedPlace)
  /\ Len(markersRef) = 1
  /\ visibleMarkers = {markersRef[1].id}
  /\ lastProcessedPlaceId # PlaceKey(selectedPlace)
  /\ mapZoom = PinZoom
\* C31 (as claimed): at every moment at most one marker is visible on the
\* map, whatever selections and helper calls came before.
C31_AtMostOneMarker == Cardinality(visibleMarkers) <= 1

\* A marker the hook holds is shown at the location of place.
ShownAt(h, shown, place) ==
  \E i \in 1..Len(h) :
    /\ h[i].id \in shown
    /\ h[i].position.lat = place.geometry.location.lat
    /\ h[i].position.lng = place.geometry.location.lng

\* C32 (as claimed): when, with the map loaded, a selection reaches the
\* store whose place has a geometry location, and the Marker constructor
\* works, then after the effect has run the map shows a marker at that
\* location; also when the same place was selected before.
C32_SelectedPlaceShown ==
  [][ \A place \in SelectPayloads :
        (/\ StoreSelectsPlace(place, "ok")
         /\ map = 1
         /\ HasLocation(selectedPlace'))
          => ShownAt(markersRef', visibleMarkers', selectedPlace') ]_vars

(***************************************************************************)
(* MapContainer mounted with the hook: what is rendered, the two polls for *)
(* the element `google-map`, and the retry button.                         *)
(***************************************************************************)
MsgContainerNotFound == "Map container 'google-map' not found after 50 attempts"
MsgMapInitFailed ==
  "Map initialization failed: Map container 'google-map' not found after 50 attempts"

\* the hook's isLoaded: set to true with setMap(mapInstance), to false with
\* setMap(null)
IsLoaded == map = 1

\* What MapContainer renders: the error view (with "Retry Map"), the
\* loading view (with "Force Retry"), or the div with id `google-map`.
View ==
  IF mapError # NoError THEN "error"
  ELSE IF ~IsLoaded \/ mapLoading \/ ~domReady THEN "loading"
  ELSE "map"

\* document.getElementById('google-map'): the div is part of the last
\* branch of the render only
ElementExists == View = "map"

\* the names in the object the hook returns
HookReturns == {"map", "isLoaded", "error", "addMarker", "clearMarkers",
                "centerMap"}

\* The effect on [error] of MapContainer, run after the hook's error
\* changed to err.
HookErrorEffect(err) ==
  CASE err = NoError -> NoError
    [] err = MsgContainerNotFound -> MsgMapInitFailed
    [] err = MsgNotInitialized ->
         "Map initialization failed: Google Maps API not initialized"
    [] OTHER -> "Map initialization failed: Auto-pinning failed: InvalidValueError"

\* mutation: the loop's exit is not followed by `if (!mapElement) throw`
MutLoopHeadNoThrow(n, found) ==
  IF n < PollAttempts /\ ~found THEN "polling" ELSE "creating"

\* initMap's loop `while (!mapElement && attempts < 50)` entered with
\* attempts = n: wait another 100 ms, go on to createMap, or throw.
LoopHead(n, found) ==
  IF n < PollAttempts
    THEN IF found THEN "creating" ELSE "polling"
    ELSE "failed"

\* initMap from the head of its loop with attempts = n, up to its next
\* await or its end; the catch block and the render that follows it
\* included.
InitMapLoop(n) ==
  LET r == LoopHead(n, ElementExists)
  IN  /\ attempts' = n
      /\ mapInitPc' = IF r = "failed" THEN "idle" ELSE r
      /\ createMapCalls' = IF r = "creating" THEN createMapCalls + 1
                           ELSE createMapCalls
      /\ initializationAttempted' = (r # "failed")
      /\ hookError' = IF r = "failed" THEN MsgContainerNotFound ELSE hookError
      /\ map' = IF r = "failed" THEN 0 ELSE map
      /\ mapError' = IF r = "failed" /\ hookError # MsgContainerNotFound
                       THEN HookErrorEffect(MsgContainerNotFound)
                       ELSE mapError

\* The 100 ms timer of the hook's mount effect fires and calls initMap().
InitTimerFires ==
  /\ mapInitPc = "timer"
  /\ IF map # 0 \/ initializationAttempted
       THEN /\ mapInitPc' = "idle"
            /\ UNCHANGED <<attempts, createMapCalls, initializationAttempted,
                           hookError, map, mapError>>
       ELSE InitMapLoop(0)
  /\ UNCHANGED <<storeVars, uiVars, sagaVars, serviceVars, markersRef,
                 lastProcessedPlaceId, mapCenter, mapZoom, nextMarkerId,
                 visibleMarkers, markerThrows, domReady, domTimer, domPolls,
                 retryCount, uncaught, clock, opCount, directVars>>

\* The 100 ms wait inside initMap's loop ends: attempts++ and the loop
\* goes round.
InitMapPolls ==
  /\ mapInitPc = "polling"
  /\ InitMapLoop(attempts + 1)
  /\ UNCHANGED <<storeVars, uiVars, sagaVars, serviceVars, markersRef,
                 lastProcessedPlaceId, mapCenter, mapZoom, nextMarkerId,
                 visibleMarkers, markerThrows, domReady, domTimer, domPolls,
                 retryCount, uncaught, clock, opCount, directVars>>

\* A pending setTimeout(checkDomReady, 100) fires; `visible` is what the
\* layout gives the element (non-zero size, displayed, not hidden).
CheckDomReady(visible) ==
  /\ domTimer
  /\ domPolls' = (domPolls + 1) % (MaxDomPolls + 1)
  /\ IF ElementExists /\ visible
       THEN domReady' = TRUE /\ domTimer' = FALSE
       ELSE UNCHANGED <<domReady, domTimer>>
  /\ UNCHANGED <<storeVars, uiVars, sagaVars, serviceVars, map, hookError,
                 markersRef, lastProcessedPlaceId, mapCenter, mapZoom,
                 nextMarkerId, visibleMarkers, markerThrows,
                 initializationAttempted, attempts, mapInitPc, createMapCalls,
                 mapError, retryCount, uncaught, clock, opCount, directVars>>

\* handleRetry, the click handler of "Retry Map" and of "Force Retry":
\* setMapError(null), then resetInitialization(), which is not among the
\* names the hook returns: the call throws a TypeError, the statements
\* after it do not run, and the queued setMapError(null) is rendered.
HandleRetry ==
  /\ retryCount < MaxRetries
  /\ View \in {"error", "loading"}
  /\ "resetInitialization" \notin HookReturns
  /\ retryCount' = retryCount + 1
  /\ mapError' = NoError
  /\ uncaught' = uncaught + 1
  /\ UNCHANGED <<storeVars, uiVars, sagaVars, serviceVars, map, hookError,
                 markersRef, lastProcessedPlaceId, mapCenter, mapZoom,
                 nextMarkerId, visibleMarkers, markerThrows,
                 initializationAttempted, attempts, mapInitPc, createMapCalls,
                 domReady, domTimer, domPolls, clock, opCount, directVars>>

MountNext ==
  \/ InitTimerFires
  \/ InitMapPolls
  \/ \E visible \in BOOLEAN : CheckDomReady(visible)
  \/ HandleRetry
  \/ \E place \in SelectPayloads, outcome \in MarkerOutcomes :
       StoreSelectsPlace(place, outcome)

SpecMount == Init /\ [][MountNext]_vars

\* Timers that are pending fire: the event loop runs them.
SpecMountFair ==
  /\ Init
  /\ [][MountNext]_vars
  /\ WF_vars(InitTimerFires)
  /\ WF_vars(InitMapPolls)
  /\ WF_vars(\E visible \in BOOLEAN : CheckDomReady(visible))

(***************************************************************************)
(* Claims about the mounted map                                            *)
(***************************************************************************)
\* C13 (as claimed): a click on the retry button while the map's
\* initialisation has failed starts a new initialisation attempt (initMap
\* is scheduled or running afterwards) and leaves no exception uncaught.
C13_RetryStartsAttempt ==
  [][ (retryCount' # retryCount /\ hookError # NoError)
      => /\ mapInitPc' \in {"timer", "polling", "creating"}
         /\ uncaught' = uncaught
    ]_vars

\* C14 (as claimed): in every execution the polling for the element stops:
\* from some point on initMap is not waiting in its loop and no
\* checkDomReady timer is pending.
C14_PollingStops ==
  <>[](mapInitPc # "polling" /\ ~domTimer)

\* C15: when initMap's loop ends while the element `google-map` is not in
\* the document, the hook's error is set, MapContainer shows the error
\* view with the retry button, and createMap has not been called.
C15_NoSurfaceNoCreateMap ==
  [][ (mapInitPc = "polling" /\ mapInitPc' # "polling" /\ ~ElementExists)
      => /\ attempts' = PollAttempts
         /\ hookError' = MsgContainerNotFound
         /\ mapError' = MsgMapInitFailed
         /\ View' = "error"
         /\ createMapCalls' = createMapCalls
         /\ createMapCalls' = 0
    ]_vars

C15_Witness ==
  /\ attempts = PollAttempts
  /\ mapInitPc = "idle"
  /\ hookError = MsgContainerNotFound
  /\ View = "error"
  /\ createMapCalls = 0
  /\ retryCount = 0

\* the hook holds one marker, at the selected place's location, and the
\* map's zoom is PinZoom
Pinned ==
  /\ Len(markersRef) = 1
  /\ markersRef[1].position.lat = selectedPlace.geometry.location.lat
  /\ markersRef[1].position.lng = selectedPlace.geometry.location.lng
  /\ visibleMarkers = {markersRef[1].id}
  /\ mapZoom = PinZoom

\* C16 (as claimed): once the details of a selection are in the store, the
\* selected place holds the location as a pair of numbers and, from some
\* point on, one marker stands at that location with the zoom at PinZoom.
C16_SelectionEndsPinned ==
  <>[](HasLocation(selectedPlace)
         => /\ selectedPlace.geometry.location.lat.kind = "num"
            /\ selectedPlace.geometry.location.lng.kind = "num"
            /\ Pinned)

(***************************************************************************)
(* Claims about the coordinator and the store                              *)
(***************************************************************************)
LatestQuery == searchTasks[submitCount].query

\* A vendor answer that reaches a search task no longer suspended in the
\* call it answers.
LateAnswer ==
  \E call \in pendingCalls :
    /\ call.task.k = "search"
    /\ call \notin pendingCalls'
    /\ ~AwaitedBy(call, searchTasks[call.task.id])

\* C1: the suggestion list is only ever written with the results of the
\* most recently submitted query, and a vendor answer that arrives for a
\* cancelled search task dispatches nothing and changes nothing in the store.
C1_OnlyLatestQueryCommitted ==
  [][ /\ (suggestions' # suggestions /\ suggestions' # << >>) =>
           /\ submitCount > 0
           /\ queue # << >>
           /\ Head(queue).task = SearchId(submitCount)
           /\ suggestions' = ValidPlaces(VendorPredictions(Trim(LatestQuery)))
      /\ LateAnswer => (queue' = << >> /\ UNCHANGED <<storeVars, uiVars>>)
    ]_vars

\* C1 witness: an earlier search task was cancelled, the vendor answered it
\* all the same, and the latest task's results are in the store.
C1_Witness ==
  /\ submitCount >= 2
  /\ searchTasks[submitCount].pc = "committed"
  /\ suggestions = ValidPlaces(VendorPredictions(<<"m", "y">>))
  /\ \E t \in 1..(submitCount - 1) :
       /\ searchTasks[t].pc = "cancelled"
       /\ searchTasks[t].calls = 1
       /\ searchTasks[t].answers = 1

\* C2 (as claimed): every run of selectPlaceSaga was started by a user
\* selection, so there are never more runs than user selections.
C2_OneRunPerSelection ==
  /\ Len(selTasks) <= selectCount
  /\ \A i \in 1..Len(selTasks) : selTasks[i].origin = "user"

PlainCoords(place) ==
  (place.geometry.present /\ place.geometry.location.present) =>
    /\ place.geometry.location.lat.kind = "num"
    /\ place.geometry.location.lng.kind = "num"

\* C4: in every store state the selected place and the place of every
\* history entry carry lat and lng as plain numbers, whether the vendor
\* gave accessor functions or plain fields.
C4_StoredCoordinatesPlain ==
  /\ PlainCoords(selectedPlace)
  /\ \A i \in 1..Len(searchHistory) : PlainCoords(searchHistory[i].place)

\* C4 witness: the vendor answered with accessor functions and the place is
\* now the selected place and the newest history entry, with its numbers.
C4_Witness ==
  /\ \E i \in 1..Len(selTasks) :
       /\ selTasks[i].details.geometry.location.lat.kind = "fn"
       /\ selectedPlace.place_id = selTasks[i].details.place_id
  /\ selectedPlace.geometry.location.lat = NumCoord(LatOf(selectedPlace.place_id))
  /\ selectedPlace.geometry.location.lng = NumCoord(LngOf(selectedPlace.place_id))
  /\ Len(searchHistory) > 0
  /\ searchHistory[1].place = selectedPlace

\* C7 (as claimed): when the details lookup of a selection fails and the
\* workflow aborts, the store's selected place is not the failed selection.
C7_FailedSelectionNotSelected ==
  [][ \A i \in 1..Len(selTasks) :
        (selTasks[i].pc = "awaitDetails" /\ selTasks'[i].pc = "e1") =>
          selectedPlace' # SerializePlace(selTasks[i].place)
    ]_vars

\* C8: at the moment a history entry for a place is added, that place is
\* the store's selected place: the commit precedes the history append.
C8_CommitBeforeHistory ==
  [][ (searchHistory' # searchHistory /\ searchHistory' # << >>) =>
        /\ selectedPlace # NullPlace
        /\ searchHistory'[1].place = selectedPlace
        /\ selectedPlace' = selectedPlace
    ]_vars

\* C8 witness: a history append is about to be dispatched for the place
\* that was just committed, while another selection is still resolving.
C8_Witness ==
  /\ queue # << >>
  /\ Head(queue).type = "addToSearchHistory"
  /\ selectedPlace = SerializePlace(Head(queue).place)
  /\ selectedPlace.geometry.location.present
  /\ \E i \in 1..Len(selTasks) : selTasks[i].pc = "awaitDetails"

LiveSearchTasks == {t \in 1..MaxUserActions : SearchLive(searchTasks[t])}

\* the results of search task t have been dispatched to the store
Applied(t) == searchTasks[t].pc \in {"fin", "committed"}

\* C9: at most one search task is live at any moment; when searchFlowSaga
\* is about to fork the new task no earlier task is live any more; and
\* results are applied in submission order.
C9_OneLiveSearchTask ==
  /\ [](Cardinality(LiveSearchTasks) <= 1)
  /\ [](flowPc = "fork" => LiveSearchTasks = {})
  /\ [][ \A t \in 1..MaxUserActions :
           (Applied(t)' /\ ~Applied(t)) =>
             \A u \in (t + 1)..MaxUserActions : ~Applied(u) /\ ~SearchLive(searchTasks[u])
       ]_vars

\* C9 witness: a task that was in flight has been cancelled and its
\* successor is the one live task.
C9_Witness ==
  /\ flowPc = "take"
  /\ \E t \in 1..MaxUserActions :
       /\ searchTasks[t].pc \in {"cancelFin", "cancelled"}
       /\ searchTasks[t].calls = 1
       /\ LiveSearchTasks = {t + 1}

\* the messages adapter errors carry, and the messages the sagas show
AdapterMessages ==
  {MsgDenied, MsgQuota, MsgInvalidRequest, MsgInvalidKey, MsgBilling,
   MsgDetailsFailed, MsgSearchUnknown, MsgNoPlaces}
UserMessages ==
  {SearchUserMessage(m) : m \in AdapterMessages \cup {MsgNoService, MsgNoFreshService}}
    \cup {SelectUserMessage(m) : m \in AdapterMessages \cup {MsgNoService, MsgInvalidPlace}}

\* C12: a search task or a selection workflow whose adapter call fails goes
\* to its catch block; the error shown is a user-facing message, never the
\* adapter's own; and when the task ends, searchLoading (for a search task)
\* or mapLoading (for a selection) is false.
C12_AdapterErrorsCaught ==
  [][ /\ \A t \in 1..MaxUserActions :
           LET pc == searchTasks[t].pc
               pc2 == searchTasks'[t].pc
           IN  /\ (pc \in {"initializing", "inflight"}
                   /\ pc2 \notin {"initializing", "inflight", "c1", "cancelFin"}) =>
                     /\ pc2 = "f1"
                     /\ queue' # << >>
                     /\ Head(queue').type = "searchPlacesFailure"
               /\ (pc = "f2" /\ pc2 = "finF") =>
                     /\ error' = SearchUserMessage(searchTasks[t].err)
                     /\ error' \in UserMessages \ AdapterMessages
                     /\ suggestions' = << >>
               /\ (pc # "failed" /\ pc2 = "failed") => ~searchLoading'
      /\ \A i \in 1..Len(selTasks) :
           LET pc == selTasks[i].pc
               pc2 == selTasks'[i].pc
           IN  /\ (pc = "awaitDetails" /\ pc2 \notin {"awaitDetails", "sel"}) =>
                     /\ pc2 = "e1"
                     /\ queue' # << >>
                     /\ Head(queue').type = "setError"
               /\ (pc = "e1" /\ pc2 = "finE") =>
                     error' \in UserMessages \ AdapterMessages
               /\ (pc # "aborted" /\ pc2 = "aborted") => ~mapLoading'
    ]_vars

\* C12 witness: a search task failed on a vendor error and a user's
\* selection aborted on a details error; both loading flags are false and
\* a user-facing message is shown.
C12_Witness ==
  /\ serviceInstance = "imported"
  /\ \E t \in 1..MaxUserActions :
       searchTasks[t].pc = "failed" /\ searchTasks[t].answers = 1
  /\ \E i \in 1..Len(selTasks) :
       selTasks[i].pc = "aborted" /\ selTasks[i].origin = "user"
  /\ ~searchLoading /\ ~mapLoading
  /\ error \in UserMessages \ AdapterMessages
  /\ queue = << >>

\* the answer of searchPlaces to a call for which the vendor says
\* ZERO_RESULTS
ZeroResults(call) == SearchResult(call.query, "ZERO_RESULTS")

\* the action at the head of the queue, which the next dispatch applies
Dispatching(type) ==
  queue # << >> /\ flowPc = "take" /\ Head(queue).type = type

\* C18: when the vendor answers ZERO_RESULTS to the lookup a search task
\* waits for, the task queues searchPlacesSuccess with an empty list and
\* nothing else; dispatching it empties the suggestions and leaves the
\* error message as it was; from there the task only sets searchLoading
\* to false and ends as committed.
C18_ZeroResultsNoError ==
  [][ /\ \A call \in pendingCalls :
           (/\ call.kind = "search" /\ call.task.k = "search"
            /\ Len(call.query) >= MinQueryLength
            /\ searchTasks[call.task.id].pc = "inflight"
            /\ SearchCallSettles(call, ZeroResults(call)))
           => /\ searchTasks'[call.task.id].pc = "c1"
              /\ queue' = << [Action("searchPlacesSuccess", call.task)
                                EXCEPT !.list = << >>] >>
              /\ error' = error
      /\ (Dispatching("searchPlacesSuccess") /\ Head(queue).list = << >>)
           => /\ suggestions' = << >>
              /\ error' = error
              /\ searchTasks'[Head(queue).task.id].pc = "fin"
      /\ \A t \in DOMAIN searchTasks :
           (searchTasks[t].pc = "fin" /\ searchTasks'[t] # searchTasks[t])
           => /\ searchTasks'[t].pc = "committed"
              /\ error' = error
              /\ ~searchLoading'
    ]_vars

\* C18 witness: a task that called the vendor for a query of two characters
\* has just committed an empty list, and no error is shown.
C18_Witness ==
  \E t \in DOMAIN searchTasks :
    /\ searchTasks[t].pc = "fin"
    /\ Len(searchTasks[t].query) >= MinQueryLength
    /\ searchTasks[t].calls = 1 /\ searchTasks[t].answers = 1
    /\ suggestions = << >>
    /\ error = NoError

\* a search task in its catch or finally block after a failure
SearchFailing(task) == task.pc \in {"f1", "f2", "finF"}

\* C20: a failing search changes nothing but suggestions, error and
\* searchLoading: the step in which the failure reaches the task leaves the
\* store as it is, and every dispatch the task makes in its catch and
\* finally blocks leaves searchHistory, selectedPlace, markers and
\* mapLoading as they are.
C20_FailedSearchFrame ==
  [][ /\ \A t \in DOMAIN searchTasks :
           (~SearchFailing(searchTasks[t]) /\ searchTasks'[t].pc = "f1")
           => /\ storeVars' = storeVars
              /\ uiVars' = uiVars
      /\ (/\ queue # << >> /\ flowPc = "take"
          /\ Head(queue).task.k = "search"
          /\ SearchFailing(searchTasks[Head(queue).task.id]))
           => /\ searchHistory' = searchHistory
              /\ selectedPlace' = selectedPlace
              /\ markers' = markers
              /\ mapLoading' = mapLoading
    ]_vars

\* C20 witness: with a place selected and an entry in the history, a search
\* failed with the vendor's REQUEST_DENIED; its message is shown, the
\* suggestions are empty, history and selection are still there.
C20_Witness ==
  \E t \in DOMAIN searchTasks :
    /\ searchTasks[t].pc = "finF"
    /\ searchTasks[t].err = MsgDenied
    /\ error = SearchUserMessage(MsgDenied)
    /\ suggestions = << >>
    /\ searchHistory # << >>
    /\ selectedPlace # NullPlace

\* the viewport of a stored place is not the vendor's LatLngBounds object
PlainViewport(place) == place.geometry.viewport # "LatLngBounds"

\* C21 (as claimed): in every store state the viewport of the selected
\* place and of the place of every history entry is absent or a plain
\* record of numbers, never the vendor's bounds object.
C21_StoredViewportPlain ==
  /\ PlainViewport(selectedPlace)
  /\ \A i \in 1..Len(searchHistory) : PlainViewport(searchHistory[i].place)

\* C23 (as claimed): a selection whose resolved details carry no geometry
\* location makes no marker update: no action dispatched by its
\* updateMapSaga changes the marker list of the store.
C23_NoGeometryNoMarkerUpdate ==
  [][ (/\ queue # << >> /\ flowPc = "take"
       /\ Head(queue).task.k = "map"
       /\ ~HasLocation(selTasks[Head(queue).task.id].details))
      => markers' = markers
    ]_vars

\* C24 (as claimed): whether the selectPlace payload is a bare place P or
\* the envelope {place: P, query}, the run of selectPlaceSaga it starts
\* works on P.
C24_PayloadNormalised ==
  [][ (Dispatching("selectPlace") /\ Head(queue).place.place_id # "")
      => /\ Len(selTasks') = Len(selTasks) + 1
         /\ selTasks'[Len(selTasks')].place = Head(queue).place
    ]_vars

\* C25: the addToSearchHistory action a selection task dispatches carries
\* the query of the selection, or, when the selection came without a
\* query, the description of the selected place; the entry put at the head
\* of the history carries the same text.
C25_HistoryEntryQuery ==
  [][ (Dispatching("addToSearchHistory") /\ Head(queue).task.k = "select")
      => LET a == Head(queue)
             task == selTasks[a.task.id]
         IN  /\ task.query # NoQuery => a.query = task.query
             /\ (task.query = NoQuery /\ task.place.description # NoQuery)
                  => a.query = task.place.description
             /\ searchHistory'[1].query = a.query
    ]_vars

\* C25 witness: a suggestion was selected without a query and the entry at
\* the head of the history is labelled with the suggestion's description.
C25_Witness ==
  \E i \in 1..Len(selTasks) :
    /\ selTasks[i].pc = "fin"
    /\ selTasks[i].query = NoQuery
    /\ selTasks[i].place.description # NoQuery
    /\ searchHistory # << >>
    /\ searchHistory[1].query = selTasks[i].place.description
    /\ searchHistory[1].place.place_id = selTasks[i].place.place_id

(***************************************************************************)
(* Selections on their own: the history panel lists one place from an      *)
(* earlier selection, a later search has listed another, the user picks    *)
(* among them and the vendor answers the details lookups in any order.     *)
(***************************************************************************)
EarlierPlace == VendorDetails("p1", "fn")

\* The state after the user searched "kl", selected p1, and then searched
\* "my": the second search cleared the error and listed p2, the runs of the
\* selection have returned (selTasks lists the runs from here on), and the
\* search task that listed the suggestions is task 1 of this behaviour.
SelectInit ==
  /\ suggestions = << Prediction("p2", <<"m", "y">>) >>
  /\ searchHistory =
       AddToSearchHistoryReducer(<< >>, <<"k", "l">>, EarlierPlace, 0, 0)
  /\ selectedPlace = SerializePlace(EarlierPlace)
  /\ markers = << [position |-> EarlierPlace.geometry.location,
                   title |-> EarlierPlace.name,
                   placeId |-> EarlierPlace.place_id] >>
  /\ searchLoading = FALSE
  /\ mapLoading = FALSE
  /\ error = NoError
  /\ queue = << >>
  /\ flowPc = "take"
  /\ flowAction = <<"m", "y">>
  /\ searchTask = 1
  /\ searchTasks =
       [t \in 1..MaxUserActions |->
          IF t = 1
            THEN SearchEnded([NoSearchTask EXCEPT !.calls = 1, !.answers = 1],
                             "committed")
            ELSE NoSearchTask]
  /\ submitCount = 1
  /\ selTasks = << >>
  /\ selectCount = 0
  /\ pendingCalls = {}
  /\ serviceInstance = "imported"
  /\ google = 1
  /\ autocompleteService = TRUE
  /\ isInitialized = TRUE
  /\ initializationPromise = 0
  /\ initializationError = NoError
  /\ loads = << >>
  /\ initPc = << >>
  /\ callers = << >>
  /\ HookInit
  /\ DirectInit
  /\ clock = 0
  /\ opCount = 0

SelectNext ==
  \/ \E place \in Selectable, q \in {NoQuery, flowAction} : UserSelect(place, q)
  \/ Flush
  \/ \E call \in pendingCalls : \E result \in Outcomes(call) :
       DetailsSettles(call, result)

SpecSelect == SelectInit /\ [][SelectNext]_vars

\* The runs of selectPlaceSaga that a selection of the user started.
UserRuns == {i \in 1..Len(selTasks) : selTasks[i].origin = "user"}

\* Nothing is left to do: no action queued, no lookup pending, no run alive.
Quiet ==
  /\ queue = << >>
  /\ pendingCalls = {}
  /\ \A i \in 1..Len(selTasks) : ~SelectRunning(selTasks[i])

\* C27 (as claimed): runs of selectPlaceSaga for different selections never
\* interleave. In a step in which the run of one selection of the user
\* starts or moves, no run of another selection of the user is under way.
C27_RunsNeverInterleave ==
  [][ \A j \in 1..Len(selTasks') :
        (/\ selTasks'[j].origin = "user"
         /\ (j > Len(selTasks) \/ selTasks'[j] # selTasks[j]))
          => \A i \in UserRuns : i # j => ~SelectRunning(selTasks[i]) ]_vars

\* C28 (as claimed): once the runs of two selections A and then B have both
\* returned without failure (B being the last selection and nothing else
\* being under way), the selected place of the store is the place of B.
C28_LaterSelectionWins ==
  \A i, j \in UserRuns :
    (/\ i < j
     /\ \A k \in UserRuns : k <= j
     /\ selTasks[i].pc = "done" /\ selTasks[j].pc = "done"
     /\ Quiet)
      => selectedPlace.place_id = selTasks[j].pid

\* C29 (as claimed): when every selection of the user has run to its end
\* without failure and the place left selected has a geometry location, the
\* store holds no error message.
C29_SuccessEndsWithoutError ==
  (/\ UserRuns # {}
   /\ \A i \in UserRuns : selTasks[i].pc = "done"
   /\ HasLocation(selectedPlace)
   /\ Quiet)
    => error = NoError

\* C30 (as claimed): after MapContainer has mounted, with nothing in the way
\* of loading the SDK, the map initialisation eventually succeeds: the
\* element 'google-map' appears, initMap finds it within its attempts,
\* createMap returns a map and isLoaded becomes true.
C30_MapEventuallyLoads == <>(ElementExists /\ createMapCalls > 0 /\ IsLoaded)

\* the messages a failed search task leaves in the store
SearchErrors ==
  {SearchUserMessage(m) : m \in AdapterMessages \cup {MsgNoService, MsgNoFreshService}}

FailedBefore(t) == \E u \in 1..(t - 1) : searchTasks[u].pc = "failed"

\* C33: when a search task commits its results after an earlier search task
\* has failed, the suggestion list becomes the list the task commits, the
\* store holds no message of a failed search, and the watcher is back at
\* its take, ready for the next submission.
C33_FailureDoesNotLeak ==
  [][ \A t \in 1..MaxUserActions :
        (/\ Dispatching("searchPlacesSuccess")
         /\ Head(queue).task = SearchId(t)
         /\ FailedBefore(t))
          => /\ suggestions' = Head(queue).list
             /\ error' \notin SearchErrors
             /\ flowPc' = "take" ]_vars

\* C33 witness: the first search failed on a vendor error, the second was
\* accepted and committed its candidates, and no error is shown.
C33_Witness ==
  /\ searchTasks[1].pc = "failed" /\ searchTasks[1].answers = 1
  /\ searchTasks[2].pc = "committed"
  /\ suggestions # << >>
  /\ error = NoError
  /\ queue = << >>

\* C34: in a burst of submissions the coordinator calls searchPlaces once,
\* for the last query. A task cancelled in its delay has made no call and
\* makes none later; no task calls twice; the task whose delay elapses is
\* the one of the last submission, and with a query of MinQueryLength or
\* more characters and an initialised service it calls searchPlaces at
\* once, with that query.
C34_BurstCallsOnce ==
  [][ \A t \in 1..MaxUserActions :
        LET task == searchTasks[t]
            task2 == searchTasks'[t]
        IN  /\ task2.calls <= 1
            /\ (task.pc = "debouncing" /\ task2.pc = "cancelFin")
                 => task2.calls = 0
            /\ task.pc \in {"cancelFin", "cancelled"} => task2.calls = task.calls
            /\ task2.calls > task.calls
                 => t = submitCount /\ task.query = flowAction
            /\ (task.pc = "debouncing" /\ task2.pc \notin {"debouncing", "cancelFin"})
                 => /\ t = submitCount
                    /\ (/\ Len(task.query) >= MinQueryLength
                        /\ serviceInstance # "none" /\ isInitialized)
                         => /\ task2.calls = 1
                            /\ Len(Trim(task.query)) >= MinQueryLength
                                 => Call("search", SearchId(t), Trim(task.query), "")
                                      \in pendingCalls' ]_vars

\* C34 witness: three submissions came in a burst; the first two tasks were
\* cancelled without a call and the third has called searchPlaces once.
C34_Witness ==
  /\ submitCount = 3
  /\ \A t \in 1..2 : searchTasks[t].pc = "cancelled" /\ searchTasks[t].calls = 0
  /\ searchTasks[3].pc = "inflight" /\ searchTasks[3].calls = 1
  /\ \E call \in pendingCalls : call.kind = "search" /\ call.query = flowAction
  /\ Cardinality(pendingCalls) = 1

(***************************************************************************)
(* Searches on their own, with time: the 10 s timer of searchPlaces is     *)
(* modelled, the scheduler and the timers are fair, and nothing obliges    *)
(* the vendor to answer. initialize() and loader.load() set no timer.      *)
(***************************************************************************)
MaxClock == 1
MsgSearchTimeout == "Search request timeout after 10 seconds"

\* setTimeout(() => reject(new Error('Search request timeout ...')), 10000)
\* exists for the predictions lookup only.
HasTimer(call) == call.kind = "search"

\* The timer of a pending lookup fires before the vendor has answered: the
\* promise of searchPlaces is rejected.
SearchTimeout(call) ==
  /\ Idle
  /\ call \in pendingCalls
  /\ call.task.k = "search"
  /\ HasTimer(call)
  /\ LET t == call.task.id
         task == searchTasks[t]
         r == IF AwaitedBy(call, task)
                THEN SearchSettled(t, task, Rejected(MsgSearchTimeout))
                ELSE Step(task, << >>, {})
     IN  /\ searchTasks' = [searchTasks EXCEPT ![t] = r.task]
         /\ queue' = r.puts
         /\ pendingCalls' = (pendingCalls \ {call}) \cup r.calls
  /\ UNCHANGED <<storeVars, uiVars, flowPc, flowAction, searchTask, submitCount,
                 selTasks, selectCount, serviceInstance, serviceVars, hookVars,
                 clock, opCount, directVars>>

\* Time passes.
Tick ==
  /\ clock' = (clock + 1) % (MaxClock + 1)
  /\ UNCHANGED <<storeVars, uiVars, sagaVars, serviceInstance, serviceVars,
                 hookVars, opCount, directVars>>

\* initialize() settles without the vendor: the adapter is initialised or
\* rethrows its cached failure.
LocalInitSettles ==
  \E call \in pendingCalls : \E result \in Outcomes(call) :
    /\ call.kind = "init"
    /\ ~LoaderRuns
    /\ SearchCallSettles(call, result)

SearchTimedNext ==
  \/ \E q \in Queries : UserSearch(q)
  \/ Flush
  \/ FlowCancel
  \/ FlowFork
  \/ \E t \in 1..MaxUserActions : DebounceElapsed(t)
  \/ \E call \in pendingCalls : \E result \in Outcomes(call) :
       SearchCallSettles(call, result)
  \/ \E call \in pendingCalls : SearchTimeout(call)
  \/ Tick

SpecSearchFair ==
  /\ Init
  /\ [][SearchTimedNext]_vars
  /\ WF_vars(Flush)
  /\ WF_vars(FlowCancel)
  /\ WF_vars(FlowFork)
  /\ WF_vars(\E t \in 1..MaxUserActions : DebounceElapsed(t))
  /\ WF_vars(\E call \in pendingCalls : SearchTimeout(call))
  /\ WF_vars(LocalInitSettles)
  /\ WF_vars(Tick)

\* C35 (as claimed): after the last submission the search-loading flag
\* eventually becomes false and stays false, whether or not the vendor
\* answers the SDK load or the predictions lookup.
C35_LoadingEventuallyOff == <>[](~searchLoading)

(***************************************************************************)
(* The service under initialize(), reset() and load completions            *)
(***************************************************************************)
\* C36: however initialize() and reset() calls interleave, at most one
\* loader.load() started by the service is awaiting its answer at any time.
C36_OneLoadInFlight == Cardinality(PendingLoads) <= 1

\* C37: in every state of the service, isInitialized being true implies
\* that the SDK handle and the autocomplete service are both present.
C37_InitializedMeansPresent ==
  isInitialized => (google # 0 /\ autocompleteService)

(***************************************************************************)
(* Selections and the searches still running when they are made            *)
(***************************************************************************)
\* a selection run is under way and no search has been submitted since its
\* selectPlace action was dispatched (a run exists only after a search)
SelectedSinceLastSearch ==
  \E i \in 1..Len(selTasks) :
    selTasks[i].searches > 0 /\ selTasks[i].searches = submitCount

\* C38: once the selectPlace reducer has emptied the suggestion list, the
\* list stays empty until the user submits a new search; in particular,
\* while the selection's run lasts, a search task that was debouncing or
\* in flight at the selection does not repopulate it.
C38_SuggestionsStayEmpty == SelectedSinceLastSearch => suggestions = << >>

\* selectPlaceSaga run i starts a getPlaceDetails call in this step
IssuesDetails(i) ==
  \E call \in pendingCalls' \ pendingCalls :
    call.kind = "details" /\ call.task = SelectId(i)

\* C39: a selection run issues a place-details lookup exactly when the
\* selected place has no geometry location and has an identifier; a place
\* that already carries a geometry location goes on without any lookup.
C39_LookupOnlyWithoutGeometry ==
  [][ \A i \in 1..Len(selTasks) :
        LET task == selTasks[i]
        IN  /\ IssuesDetails(i) => task.pc = "m1"
            /\ (task.pc = "m1" /\ selTasks'[i].pc # "m1"
                /\ serviceInstance # "none")
                 => (IssuesDetails(i)
                       <=> (~HasLocation(task.place) /\ task.place.place_id # ""))
    ]_vars

(***************************************************************************)
(* What changes the search history                                         *)
(***************************************************************************)
\* C40: the search history is emptied only by the clearSearchHistory
\* action the user dispatches; the only other change is addToSearchHistory,
\* which puts the new entry first and keeps every earlier entry in order,
\* except the one for the same place and those pushed beyond HistoryLimit.
\* No search, selection, error or marker action changes it.
C40_HistoryClearedOnlyExplicitly ==
  [][ searchHistory' # searchHistory =>
        \/ /\ Dispatching("clearSearchHistory")
           /\ Head(queue).task = NoTask
           /\ searchHistory' = << >>
        \/ /\ Dispatching("addToSearchHistory")
           /\ searchHistory' # << >>
           /\ LET kept == OtherEntries(searchHistory,
                                       searchHistory'[1].place.place_id)
              IN  \A j \in 1..Len(kept) :
                    j < HistoryLimit =>
                      /\ j + 1 <= Len(searchHistory')
                      /\ searchHistory'[j + 1] = kept[j]
    ]_vars

\* C40 witness: a selection put its entry in the history; a search
\* submitted after the first one failed and its message is on display;
\* the entry is still there.
C40_Witness ==
  /\ Len(selTasks) >= 1
  /\ selTasks[1].origin = "user" /\ selTasks[1].pc = "done"
  /\ searchTasks[1].pc = "committed"
  /\ searchTasks[2].pc = "failed" /\ searchTasks[2].answers = 1
  /\ Len(searchHistory) = 1
  /\ searchHistory[1].place.place_id = selTasks[1].pid
  /\ error \in SearchErrors
  /\ queue = << >>

====
